---- MODULE Spec2Model ----
(***************************************************************************)
(* A model of the personalization-aware rendering of notification-utils:   *)
(* Placeholder / Field (field.py), the second-generation substitution of   *)
(* template2.py, the Template constructor and the SMS fragment count of    *)
(* template.py.                                                            *)
(*                                                                         *)
(* A Python string is a sequence of atoms.  An atom is one character, or a *)
(* literal that the code emits whole (a marker tag, "&lt;", " and ").  No  *)
(* input of the model holds the characters of such a literal, so two equal *)
(* sequences are equal strings and conversely.                             *)
(***************************************************************************)
EXTENDS Integers, Sequences, FiniteSets, TLC

VARIABLES
    fPieces,        \* the pieces the Field's content was written from
    fValues,        \* the personalisation dict handed to Field(...)
    fHtml,          \* Field(html=...): the sanitizer's name
    fMarkdownLists, \* Field(markdown_lists=...)
    fRedact,        \* Field(redact_missing_personalisation=...)
    fPreview,       \* Field(preview_mode=...)
    fWithBrackets,  \* Field(with_brackets=...)
    fPlaceholders,  \* Field._placeholders
    fUrls,          \* Field._urls
    fCalls,         \* number of property reads made on the instance
    fOp,            \* the last property read: "new", "replaced", "formatted"
    fOut,           \* what that read produced: [exc, out]
    tPieces,        \* the pieces the markdown of render_notify_markdown is written from
    tPers,          \* its personalization argument: [type, items], items a dict
    tAsHtml,        \* its as_html argument
    tOp,            \* "new", then "rendered" once render_notify_markdown has run
    tOut,           \* what the call produced: [exc, out, steps, missing]
    sCount,         \* get_sms_fragment_count: the character_count argument
    sUnicode,       \* its is_unicode argument
    sFragments,     \* the count it returned for them, 0 before the call
    cTemplate,      \* Template(template, values): the template argument
    cValues,        \* its values argument
    cOp,            \* "new", then "constructed" once Template.__init__ has run
    cOut,           \* what the constructor did: [exc, steps, values]
    xPieces,        \* the pieces the argument of a formatter is written from
    xText,          \* the string the formatter is called on
    xHtml,          \* the as_html argument, for the formatters that take one
    xCalls,         \* the calls made so far, each [fn, exc, out]; a call takes
                    \* the output of the one before it as its input
    kPieces,        \* the pieces of the content of the Fields two threads read
    kShared,        \* TRUE iff both threads read the same Field instance
    kBuf,           \* per Field instance: its _placeholders and _urls buffers
    kThread,        \* per thread: where its _raw_formatted call stands
    bPieces,        \* the lines the source handed to the block parser is written from
    bState,         \* the BlockState: [src, cursor, tokens, depth]
    bCall,          \* the parser method running on it: [fn, pc, text, end_pos,
                    \* prev_blank_line, require_marker]
    gSpecification, \* BlockParser.SPECIFICATION, the dict of the class
    gParsers,       \* the block parsers constructed so far: [cls, specification]
    gParsed         \* the last line a parser was tried on: [parser, line, rule]

fieldVars == <<fPieces, fValues, fHtml, fMarkdownLists, fRedact, fPreview,
               fWithBrackets, fPlaceholders, fUrls, fCalls, fOp, fOut>>

t2Vars == <<tPieces, tPers, tAsHtml, tOp, tOut>>

smsVars == <<sCount, sUnicode, sFragments>>

ctorVars == <<cTemplate, cValues, cOp, cOut>>

fmtVars == <<xPieces, xText, xHtml, xCalls>>

concVars == <<kPieces, kShared, kBuf, kThread>>

blockVars == <<bPieces, bState, bCall>>

globVars == <<gSpecification, gParsers, gParsed>>

extVars == <<concVars, blockVars, globVars>>

vars == <<fieldVars, t2Vars, smsVars, ctorVars, fmtVars, extVars>>

(***************************************************************************)
(* Bounds of the model.                                                    *)
(***************************************************************************)
MaxPieces == 2
MaxMaskPieces == 2
MaxCalls == 2
MaxT2Pieces == 2
MaxKeys == 2
MaxCount == 500

(***************************************************************************)
(* Strings.                                                                *)
(***************************************************************************)
RECURSIVE Flatten(_)
Flatten(ps) == IF ps = <<>> THEN <<>> ELSE Head(ps) \o Flatten(Tail(ps))

At(s, i) == IF i >= 1 /\ i <= Len(s) THEN s[i] ELSE "<eof>"

StartsWithAt(s, i, p) ==
    /\ i >= 1
    /\ i + Len(p) - 1 <= Len(s)
    /\ \A k \in 1..Len(p) : s[i + k - 1] = p[k]

Contains(s, p) == \E i \in 1..(Len(s) + 1) : StartsWithAt(s, i, p)

Digits == {"0", "1", "2", "3", "4", "5", "6", "7", "8", "9"}

AsciiLetters ==
    {"a", "b", "e", "i", "l", "s", "u", "v", "w", "x", "y", "A", "B", "F"}

\* \w of the regular expressions
WordChars == AsciiLetters \cup Digits \cup {"_"}

\* [\w \-] of Field.placeholder_pattern
NameChars == WordChars \cup {" ", "-"}

DigitValue(c) ==
    CASE c = "0" -> 0 [] c = "1" -> 1 [] c = "2" -> 2 [] c = "3" -> 3
      [] c = "4" -> 4 [] c = "5" -> 5 [] c = "6" -> 6 [] c = "7" -> 7
      [] c = "8" -> 8 [] c = "9" -> 9

DigitChar(n) ==
    CASE n = 0 -> "0" [] n = 1 -> "1" [] n = 2 -> "2" [] n = 3 -> "3"
      [] n = 4 -> "4" [] n = 5 -> "5" [] n = 6 -> "6" [] n = 7 -> "7"
      [] n = 8 -> "8" [] n = 9 -> "9"

\* str(n) of a non-negative int
RECURSIVE IntToStr(_)
IntToStr(n) ==
    IF n < 10 THEN <<DigitChar(n)>>
    ELSE IntToStr(n \div 10) \o <<DigitChar(n % 10)>>

\* int(s) of a string of digits
RECURSIVE StrToInt(_)
StrToInt(s) ==
    IF s = <<>> THEN 0
    ELSE 10 * StrToInt(SubSeq(s, 1, Len(s) - 1)) + DigitValue(s[Len(s)])

\* the length of the longest run of atoms of class cls that starts at s[i]
RECURSIVE RunLen(_, _, _)
RunLen(s, i, cls) ==
    IF i <= Len(s) /\ s[i] \in cls THEN 1 + RunLen(s, i + 1, cls) ELSE 0

(***************************************************************************)
(* Personalisation values: None, a str, a bool, or a list of such.         *)
(***************************************************************************)
NoneV == [t |-> "none", s |-> <<>>, items |-> <<>>]
StrV(s) == [t |-> "str", s |-> s, items |-> <<>>]
FalseV == [t |-> "bool", s |-> <<"F", "a", "l", "s", "e">>, items |-> <<>>]
ListV(items) == [t |-> "list", s |-> <<>>, items |-> items]

\* Python truthiness of a value
Truthy(v) ==
    CASE v.t = "none" -> FALSE
      [] v.t = "bool" -> FALSE
      [] v.t = "str" -> v.s # <<>>
      [] v.t = "list" -> v.items # <<>>

\* repr() of a list item
Repr(v) ==
    CASE v.t = "none" -> <<"None">>
      [] v.t = "bool" -> v.s
      [] v.t = "str" -> <<"'">> \o v.s \o <<"'">>
      [] v.t = "list" -> <<"[...]">>

RECURSIVE JoinWith(_, _)
JoinWith(strs, sep) ==
    IF strs = <<>> THEN <<>>
    ELSE IF Len(strs) = 1 THEN strs[1]
    ELSE strs[1] \o sep \o JoinWith(Tail(strs), sep)

\* str(value)
Str(v) ==
    CASE v.t = "none" -> <<"None">>
      [] v.t = "bool" -> v.s
      [] v.t = "str" -> v.s
      [] v.t = "list" ->
            <<"[">> \o JoinWith([k \in 1..Len(v.items) |-> Repr(v.items[k])],
                                <<",", " ">>) \o <<"]">>

(***************************************************************************)
(* A dict is the sequence of its items in insertion order, keys distinct.  *)
(***************************************************************************)
DictKeys(d) == {d[k][1] : k \in 1..Len(d)}

DictHas(d, key) == \E k \in 1..Len(d) : d[k][1] = key

DictGet(d, key) ==
    IF DictHas(d, key)
    THEN d[CHOOSE k \in 1..Len(d) : d[k][1] = key][2]
    ELSE NoneV

(***************************************************************************)
(* Columns (columns.py): a dict whose keys are normalised by make_key.     *)
(***************************************************************************)
LowerChar(c) ==
    CASE c = "A" -> "a" [] c = "B" -> "b" [] c = "F" -> "f" [] c = "G" -> "g"
      [] c = "K" -> "k" [] c = "O" -> "o" [] c = "U" -> "u" [] c = "V" -> "v"
      [] c = "C" -> "c" [] c = "P" -> "p" [] c = "R" -> "r"
      [] OTHER -> c

RECURSIVE make_key(_)
make_key(original_key) ==
    IF original_key = <<>> THEN <<>>
    ELSE IF Head(original_key) \in {" ", "_", "-"} THEN make_key(Tail(original_key))
    ELSE <<LowerChar(Head(original_key))>> \o make_key(Tail(original_key))

\* Columns(value).get(key): the dict comprehension keeps the last item of a key
ColumnsGet(d, key) ==
    LET hits == {k \in 1..Len(d) : make_key(d[k][1]) = make_key(key)}
    IN  IF hits = {} THEN NoneV
        ELSE d[CHOOSE k \in hits : \A j \in hits : j <= k][2]

\* Field.values setter: Columns(value) if value else {}
FieldValuesGet(values, name) ==
    IF values = <<>> THEN NoneV ELSE ColumnsGet(values, name)

(***************************************************************************)
(* Sanitizers (formatters.py): bleach.clean with no tag allowed.  A tag is *)
(* "<", a letter, and everything up to the next ">".                       *)
(***************************************************************************)
TagLenAt(s, i) ==
    IF At(s, i) = "<" /\ At(s, i + 1) \in AsciiLetters
       /\ \E k \in (i + 2)..Len(s) : s[k] = ">"
    THEN (CHOOSE k \in (i + 2)..Len(s) :
              s[k] = ">" /\ \A j \in (i + 2)..(k - 1) : s[j] # ">") - i + 1
    ELSE 0

EscapeAtom(c) ==
    CASE c = "<" -> "&lt;" [] c = ">" -> "&gt;" [] c = "&" -> "&amp;" [] OTHER -> c

RECURSIVE bleach_clean(_, _, _)
bleach_clean(s, i, strip) ==
    IF i > Len(s) THEN <<>>
    ELSE IF strip /\ TagLenAt(s, i) > 0
         THEN bleach_clean(s, i + TagLenAt(s, i), strip)
    ELSE <<EscapeAtom(s[i])>> \o bleach_clean(s, i + 1, strip)

strip_html(value) == bleach_clean(value, 1, TRUE)

escape_html(value) ==
    IF value = <<>> THEN value
    ELSE bleach_clean([k \in 1..Len(value) |->
                          IF value[k] = "<" THEN "&lt;" ELSE value[k]], 1, FALSE)

passthrough(value) == value

Sanitizers == {"strip", "escape", "passthrough"}

Sanitize(html, value) ==
    CASE html = "strip" -> strip_html(value)
      [] html = "escape" -> escape_html(value)
      [] html = "passthrough" -> passthrough(value)

(***************************************************************************)
(* The outcome of a call: the exception it raised, or what it returned.    *)
(***************************************************************************)
Ok(out) == [exc |-> "none", out |-> out]
Raise(exc) == [exc |-> exc, out |-> <<>>]

(***************************************************************************)
(* Placeholder (field.py).                                                 *)
(***************************************************************************)
RECURSIVE lstrip(_, _)
lstrip(s, chars) ==
    IF s # <<>> /\ Head(s) \in chars THEN lstrip(Tail(s), chars) ELSE s

RECURSIVE rstrip(_, _)
rstrip(s, chars) ==
    IF s # <<>> /\ s[Len(s)] \in chars
    THEN rstrip(SubSeq(s, 1, Len(s) - 1), chars) ELSE s

\* Placeholder.__init__: body.lstrip('((').rstrip('))')
PlaceholderBody(text) == rstrip(lstrip(text, {"("}), {")"})

QQ == <<"?", "?">>

\* a slip: the '??' looked for after the first character only
is_conditional_M(body) == body # <<>> /\ Contains(Tail(body), QQ)

is_conditional(body) == Contains(body, QQ)

\* where body.split('??') splits first
FirstQQ(body) ==
    CHOOSE i \in 1..Len(body) :
        /\ StartsWithAt(body, i, QQ)
        /\ \A j \in 1..(i - 1) : ~StartsWithAt(body, j, QQ)

PlaceholderName(body) ==
    IF is_conditional(body) THEN SubSeq(body, 1, FirstQQ(body) - 1) ELSE body

FalseStr == <<"F", "a", "l", "s", "e">>

should_render_conditional(placeholder_value) ==
    ~(Str(placeholder_value) \in {<<>>, FalseStr})

conditional_text(body) ==
    IF is_conditional(body)
    THEN Ok(SubSeq(body, FirstQQ(body) + 2, Len(body)))
    ELSE Raise("ValueError")

get_conditional_body(body, placeholder_value) ==
    IF is_conditional(body)
    THEN IF should_render_conditional(placeholder_value)
         THEN conditional_text(body) ELSE Ok(<<>>)
    ELSE Raise("ValueError")

(***************************************************************************)
(* Field.placeholder_pattern:                                              *)
(*   \({2}([\w \-]+(?:\?{2}.*?(?!\({2}[\w \-]+\){2}.*?))?)\){2}            *)
(* PlaceholderMatchLen(s, i) is the length of its match at s[i], 0 if none.*)
(***************************************************************************)
OpenOpen == <<"(", "(">>
CloseClose == <<")", ")">>

\* \({2}[\w \-]+\){2} matches at s[i]: what the negative lookahead refuses
NestedPlaceholderAt(s, i) ==
    /\ StartsWithAt(s, i, OpenOpen)
    /\ RunLen(s, i + 2, NameChars) >= 1
    /\ StartsWithAt(s, i + 2 + RunLen(s, i + 2, NameChars), CloseClose)

\* .*? then the lookahead then \){2}: the first k that closes the conditional
ConditionalCloses(s, from) ==
    {k \in from..Len(s) :
        /\ \A j \in from..(k - 1) : s[j] # "\n"
        /\ ~NestedPlaceholderAt(s, k)
        /\ StartsWithAt(s, k, CloseClose)}

PlaceholderMatchLen(s, i) ==
    IF ~StartsWithAt(s, i, OpenOpen) THEN 0
    ELSE LET n == RunLen(s, i + 2, NameChars)
             j == i + 2 + n
         IN  IF n = 0 THEN 0
             ELSE IF StartsWithAt(s, j, QQ) /\ ConditionalCloses(s, j + 2) # {}
                  THEN (CHOOSE k \in ConditionalCloses(s, j + 2) :
                            \A k2 \in ConditionalCloses(s, j + 2) : k <= k2) + 2 - i
             ELSE IF StartsWithAt(s, j, CloseClose) THEN n + 4
             ELSE 0

(***************************************************************************)
(* re.sub(Field.conditional_placeholder_pattern, repl, text) with a string *)
(* repl: Python compiles repl as a template first (backslash escapes and   *)
(* group references), then puts it in place of every '{}'.                 *)
(***************************************************************************)
ControlEscapes == {"a", "b", "f", "n", "r", "t", "v"}

RECURSIVE ExpandTemplate(_, _, _)
ExpandTemplate(repl, i, group1) ==
    IF i > Len(repl) THEN Ok(<<>>)
    ELSE IF repl[i] # "\\"
         THEN LET rest == ExpandTemplate(repl, i + 1, group1)
              IN  IF rest.exc # "none" THEN rest ELSE Ok(<<repl[i]>> \o rest.out)
    ELSE IF i = Len(repl) THEN Raise("re.error")
    ELSE LET c == repl[i + 1]
             rest == ExpandTemplate(repl, i + 2, group1)
             this == CASE c = "1" -> Ok(group1)
                       [] c = "0" -> Ok(<<"\\x00">>)
                       [] c \in Digits \ {"0", "1"} -> Raise("re.error")
                       [] c = "\\" -> Ok(<<"\\">>)
                       [] c = "n" -> Ok(<<"\n">>)
                       [] c \in ControlEscapes \ {"n"} -> Ok(<<"<control>", c>>)
                       [] c \in AsciiLetters \ ControlEscapes -> Raise("re.error")
                       [] OTHER -> Ok(<<"\\", c>>)
         IN  IF this.exc # "none" THEN this
             ELSE IF rest.exc # "none" THEN rest
             ELSE Ok(this.out \o rest.out)

Slot == <<"{", "}">>

RECURSIVE ReplaceSlots(_, _, _)
ReplaceSlots(text, i, with) ==
    IF i > Len(text) THEN <<>>
    ELSE IF StartsWithAt(text, i, Slot) THEN with \o ReplaceSlots(text, i + 2, with)
    ELSE <<text[i]>> \o ReplaceSlots(text, i + 1, with)

SubConditionalSlots(repl, text) ==
    LET expanded == ExpandTemplate(repl, 1, Slot)
    IN  IF expanded.exc # "none" THEN expanded
        ELSE Ok(ReplaceSlots(text, 1, expanded.out))

(***************************************************************************)
(* Field (field.py).  f is the instance as __init__ leaves it:             *)
(*   [content, values, html, markdown_lists, redact, preview_mode,         *)
(*    with_brackets]                                                       *)
(***************************************************************************)
placeholder_tag_redacted == <<"<span class='placeholder-redacted'>hidden</span>">>

\* Field.__init__: the tag a plain placeholder is shown with
placeholder_tag(f, name) ==
    IF f.preview_mode
    THEN <<"<span class='placeholder'><mark>", "(", "(">> \o name
             \o <<")", ")", "</mark></span>">>
    ELSE IF ~f.with_brackets
    THEN <<"<span class='placeholder-no-brackets'>">> \o name \o <<"</span>">>
    ELSE <<"<span class='placeholder'>", "(", "(">> \o name \o <<")", ")", "</span>">>

conditional_placeholder_tag(name, text) ==
    <<"<span class='placeholder-conditional'>", "(", "(">> \o name
        \o <<"?", "?", "</span>">> \o text \o <<")", ")">>

\* a slip: the conditional tag tried before redaction
format_match_M(f, match) ==
    LET body == PlaceholderBody(match)
    IN  IF is_conditional(body)
        THEN conditional_placeholder_tag(
                 Sanitize(f.html, PlaceholderName(body)),
                 Sanitize(f.html, SubSeq(body, FirstQQ(body) + 2, Len(body))))
        ELSE IF f.redact THEN placeholder_tag_redacted
        ELSE placeholder_tag(f, Sanitize(f.html, PlaceholderName(body)))

format_match(f, match) ==
    LET body == PlaceholderBody(match)
    IN  IF f.redact THEN placeholder_tag_redacted
        ELSE IF is_conditional(body)
        THEN conditional_placeholder_tag(
                 Sanitize(f.html, PlaceholderName(body)),
                 Sanitize(f.html, conditional_text(body).out))
        ELSE placeholder_tag(f, Sanitize(f.html, PlaceholderName(body)))

\* a slip: redaction forgotten
is_okay_to_have_null_values_M(f, body) == is_conditional(body)

is_okay_to_have_null_values(f, body) == f.redact \/ is_conditional(body)

\* a slip: the falsy items kept
FilterTruthy_M(items) == items

\* list(filter(None, replacement))
RECURSIVE FilterTruthy(_)
FilterTruthy(items) ==
    IF items = <<>> THEN <<>>
    ELSE IF Truthy(Head(items)) THEN <<Head(items)>> \o FilterTruthy(Tail(items))
    ELSE FilterTruthy(Tail(items))

\* formatters.unescaped_formatted_list(items, before_each='', after_each='')
unescaped_formatted_list(items) ==
    IF Len(items) = 1 THEN Str(items[1])
    ELSE LET formatted_items == [k \in 1..Len(items) |-> Str(items[k])]
             first_items == JoinWith(SubSeq(formatted_items, 1, Len(items) - 1),
                                     <<",", " ">>)
             last_item == formatted_items[Len(items)]
         IN  first_items \o <<" ", "and", " ">> \o last_item

get_replacement_as_list(f, vals) ==
    IF f.markdown_lists
    THEN <<"\n", "\n">>
            \o JoinWith([k \in 1..Len(vals) |-> <<"*", " ">> \o Str(vals[k])], <<"\n">>)
    ELSE unescaped_formatted_list(vals)

\* Field.get_replacement: [none |-> TRUE] is Python's None
NoReplacement == [none |-> TRUE, s |-> <<>>]
Replacement(s) == [none |-> FALSE, s |-> s]

\* a slip: the scalar value not sanitized
get_replacement_M(f, body) ==
    LET replacement == FieldValuesGet(f.values, PlaceholderName(body))
    IN  IF replacement = NoneV THEN NoReplacement
        ELSE IF replacement.t = "list"
        THEN LET vals == FilterTruthy(replacement.items)
             IN  IF vals = <<>> THEN NoReplacement
                 ELSE Replacement(Sanitize(f.html, get_replacement_as_list(f, vals)))
        ELSE Replacement(Str(replacement))

get_replacement(f, body) ==
    LET replacement == FieldValuesGet(f.values, PlaceholderName(body))
    IN  IF replacement = NoneV THEN NoReplacement
        ELSE IF replacement.t = "list"
        THEN LET vals == FilterTruthy(replacement.items)
             IN  IF vals = <<>> THEN NoReplacement
                 ELSE Replacement(Sanitize(f.html, get_replacement_as_list(f, vals)))
        ELSE Replacement(Sanitize(f.html, Str(replacement)))

replace_match(f, match) ==
    LET body == PlaceholderBody(match)
        replacement == FieldValuesGet(f.values, PlaceholderName(body))
    IN  IF is_conditional(body) /\ replacement # NoneV
        THEN SubConditionalSlots(Sanitize(f.html, Str(replacement)),
                                 get_conditional_body(body, replacement).out)
        ELSE IF ~f.preview_mode /\ get_replacement(f, body).none
                /\ ~is_okay_to_have_null_values(f, body)
        THEN Raise("NullValueForNonConditionalPlaceholderException")
        ELSE IF ~f.preview_mode /\ ~get_replacement(f, body).none
        THEN Ok(get_replacement(f, body).s)
        ELSE Ok(format_match(f, match))

\* re.sub(self.placeholder_pattern, self.replace_match, text) from text[i] on
RECURSIVE SubPlaceholders(_, _, _)
SubPlaceholders(f, text, i) ==
    IF i > Len(text) THEN Ok(<<>>)
    ELSE LET n == PlaceholderMatchLen(text, i)
         IN  IF n = 0
             THEN LET rest == SubPlaceholders(f, text, i + 1)
                  IN  IF rest.exc # "none" THEN rest ELSE Ok(<<text[i]>> \o rest.out)
             ELSE LET this == replace_match(f, SubSeq(text, i, i + n - 1))
                  IN  IF this.exc # "none" THEN this
                      ELSE LET rest == SubPlaceholders(f, text, i + n)
                           IN  IF rest.exc # "none" THEN rest
                               ELSE Ok(this.out \o rest.out)

\* Field.replaced
replaced(f) == SubPlaceholders(f, Sanitize(f.html, f.content), 1)

(***************************************************************************)
(* Field._raw_formatted and Field.formatted: the masking protocol.  The    *)
(* buffers self._placeholders and self._urls are threaded through.         *)
(***************************************************************************)
VarToken == "VARIABLE_PLACEHOLDER::"
UrlToken == "URL_PLACEHOLDER::"

\* re.sub(self.placeholder_pattern, replace_placeholder, text) from text[i] on
RECURSIVE MaskPlaceholders(_, _, _)
MaskPlaceholders(text, i, buf) ==
    IF i > Len(text) THEN [out |-> <<>>, buf |-> buf]
    ELSE LET n == PlaceholderMatchLen(text, i)
         IN  IF n = 0
             THEN LET rest == MaskPlaceholders(text, i + 1, buf)
                  IN  [out |-> <<text[i]>> \o rest.out, buf |-> rest.buf]
             ELSE LET appended == Append(buf, SubSeq(text, i, i + n - 1))
                      rest == MaskPlaceholders(text, i + n, appended)
                  IN  [out |-> <<VarToken>> \o IntToStr(Len(appended)) \o rest.out,
                       buf |-> rest.buf]

\* [^\[\]\(\)]
UrlBrackets == {"[", "]", "(", ")"}

RECURSIVE UrlRunLen(_, _)
UrlRunLen(s, i) ==
    IF i <= Len(s) /\ ~(s[i] \in UrlBrackets) THEN 1 + UrlRunLen(s, i + 1) ELSE 0

\* url_pattern \[.*?\]\(([^\[\]\(\)]+)\): the "]" positions that let it match
UrlCloses(s, i) ==
    {j \in (i + 1)..Len(s) :
        /\ s[j] = "]"
        /\ \A k \in (i + 1)..(j - 1) : s[k] # "\n"
        /\ At(s, j + 1) = "("
        /\ UrlRunLen(s, j + 2) >= 1
        /\ At(s, j + 2 + UrlRunLen(s, j + 2)) = ")"}

UrlMatchLen(s, i) ==
    IF At(s, i) = "[" /\ UrlCloses(s, i) # {}
    THEN LET j == CHOOSE j \in UrlCloses(s, i) : \A j2 \in UrlCloses(s, i) : j <= j2
         IN  j + 2 + UrlRunLen(s, j + 2) - i + 1
    ELSE 0

\* re.sub(url_pattern, replace_url, text) from text[i] on
RECURSIVE MaskUrls(_, _, _)
MaskUrls(text, i, buf) ==
    IF i > Len(text) THEN [out |-> <<>>, buf |-> buf]
    ELSE LET n == UrlMatchLen(text, i)
         IN  IF n = 0
             THEN LET rest == MaskUrls(text, i + 1, buf)
                  IN  [out |-> <<text[i]>> \o rest.out, buf |-> rest.buf]
             ELSE LET appended == Append(buf, SubSeq(text, i, i + n - 1))
                      rest == MaskUrls(text, i + n, appended)
                  IN  [out |-> <<UrlToken>> \o IntToStr(Len(appended)) \o rest.out,
                       buf |-> rest.buf]

restore_placeholder(buf, index) ==
    IF 1 <= index /\ index <= Len(buf) THEN buf[index]
    ELSE <<"(", "(", VarToken>> \o IntToStr(index) \o <<")", ")">>

restore_url(buf, index) ==
    IF 1 <= index /\ index <= Len(buf) THEN buf[index]
    ELSE <<"[", "URL_RESTORED", "]">>

\* re.sub(r'<token>(\d+)', restore, text) from text[i] on
RECURSIVE RestoreTokens(_, _, _, _)
RestoreTokens(text, i, token, buf) ==
    IF i > Len(text) THEN <<>>
    ELSE LET d == RunLen(text, i + 1, Digits)
         IN  IF text[i] = token /\ d >= 1
             THEN LET index == StrToInt(SubSeq(text, i + 1, i + d))
                  IN  (IF token = VarToken THEN restore_placeholder(buf, index)
                       ELSE restore_url(buf, index))
                          \o RestoreTokens(text, i + 1 + d, token, buf)
             ELSE <<text[i]>> \o RestoreTokens(text, i + 1, token, buf)

\* Field._raw_formatted: [out, placeholders, urls]
raw_formatted(f, placeholders, urls) ==
    LET masked1 == MaskPlaceholders(Sanitize(f.html, f.content), 1, placeholders)
        masked2 == MaskUrls(masked1.out, 1, urls)
        restored1 == RestoreTokens(masked2.out, 1, VarToken, masked1.buf)
        restored2 == RestoreTokens(restored1, 1, UrlToken, masked2.buf)
    IN  [out |-> restored2, placeholders |-> masked1.buf, urls |-> masked2.buf]

\* Field.formatted: [out, placeholders, urls]
formatted(f, placeholders, urls) ==
    LET raw == raw_formatted(f, placeholders, urls)
    IN  IF ~f.preview_mode
        THEN [raw EXCEPT !.out = RestoreTokens(raw.out, 1, VarToken, raw.placeholders)]
        ELSE raw

(***************************************************************************)
(* The Field instances of the model.  Contents are written from pieces: a  *)
(* piece is literal text, a placeholder, or a markdown link.  Pieces, not  *)
(* characters, are what the bounds count.                                  *)
(***************************************************************************)
PieceX == <<"x">>
PieceTag == <<"<", "i", ">">>
PieceA == <<"(", "(", "a", ")", ")">>
PieceB == <<"(", "(", "B", "-", ")", ")">>
PieceCondA == <<"(", "(", "a", "?", "?", "y", "{", "}", ")", ")">>
PieceCondB == <<"(", "(", "b", "?", "?", "y", ")", ")">>
PieceLink == <<"[", "l", "]", "(", "u", ")">>
PieceLinkA == <<"[", "l", "]", "(", "u", "(", "(", "a", ")", ")", ")">>
PieceDigit == <<"1">>
PieceVarToken == <<VarToken, "1">>

\* contents read through Field.replaced
FieldPieces == {PieceX, PieceTag, PieceA, PieceB, PieceCondA, PieceCondB}

\* contents read through the masking protocol of Field.formatted
MaskPieces == {PieceX, PieceTag, PieceA, PieceCondA, PieceLink, PieceLinkA,
               PieceDigit, PieceVarToken}

ContentsOf(pieces, n) == UNION {[1..k -> pieces] : k \in 0..n}

AbsentV == [t |-> "absent", s |-> <<>>, items |-> <<>>]

FieldValuesOfA ==
    { AbsentV, NoneV, StrV(<<>>), StrV(FalseStr), FalseV,
      StrV(<<"v">>), StrV(<<"<", "i", ">">>), StrV(<<"\\", "1">>),
      StrV(PieceA),
      ListV(<<>>), ListV(<<StrV(<<>>), NoneV>>), ListV(<<StrV(<<"v">>)>>),
      ListV(<<StrV(<<"v">>), StrV(<<>>), StrV(<<"w">>)>>),
      ListV(<<StrV(<<"v">>), StrV(<<"<", "i", ">">>), StrV(<<"u">>)>>) }

FieldValuesOfB == {AbsentV, StrV(<<"w">>)}

\* the dict {'a': va, 'b': vb}, an absent key left out
DictOf(va, vb) ==
    (IF va = AbsentV THEN <<>> ELSE << <<(<<"a">>), va>> >>)
        \o (IF vb = AbsentV THEN <<>> ELSE << <<(<<"b">>), vb>> >>)

\* the Field instance of the state
TheField ==
    [content |-> Flatten(fPieces), values |-> fValues, html |-> fHtml,
     markdown_lists |-> fMarkdownLists, redact |-> fRedact,
     preview_mode |-> fPreview, with_brackets |-> fWithBrackets]

\* render_notify_markdown is not in use
T2Idle ==
    /\ tPieces = <<>>
    /\ tPers = [type |-> "none", items |-> <<>>]
    /\ tAsHtml = TRUE
    /\ tOp = "new"
    /\ tOut = [exc |-> "none", out |-> <<>>, steps |-> <<>>, missing |-> {}]

\* get_sms_fragment_count is not in use
SmsIdle ==
    /\ sCount = 0
    /\ sUnicode = FALSE
    /\ sFragments = 0

\* no formatter is called
FmtIdle == xPieces = <<>> /\ xText = <<>> /\ xHtml = FALSE /\ xCalls = <<>>

\* no thread reads a Field
ConcIdle == kPieces = <<>> /\ kShared = FALSE /\ kBuf = <<>> /\ kThread = <<>>

\* no block parser runs
BlockIdle == bPieces = <<>> /\ bState = <<>> /\ bCall = <<>>

\* no block parser is constructed: the dict of the class is as mistune defines it
GlobIdle ==
    /\ gSpecification = [block_quote |-> {">"}, list |-> {"*", "+", "-"}]
    /\ gParsers = <<>>
    /\ gParsed = <<>>

ExtIdle == ConcIdle /\ BlockIdle /\ GlobIdle

\* no Template is constructed
CtorIdle ==
    /\ cTemplate = [type |-> "none", keys |-> {}, content |-> <<>>]
    /\ cValues = [type |-> "none", items |-> <<>>]
    /\ cOp = "new"
    /\ cOut = [exc |-> "none", steps |-> <<>>, values |-> {}]

\* what Field.__init__ leaves besides its arguments
FieldFresh ==
    /\ fPlaceholders = <<>>
    /\ fUrls = <<>>
    /\ fCalls = 0
    /\ fOp = "new"
    /\ fOut = Ok(<<>>)

\* no Field instance is in use
FieldIdle ==
    /\ fPieces = <<>>
    /\ fValues = <<>>
    /\ fHtml = "strip"
    /\ fMarkdownLists = FALSE
    /\ fRedact = FALSE
    /\ fPreview = FALSE
    /\ fWithBrackets = TRUE
    /\ FieldFresh

\* Field(content, values, html=, markdown_lists=, redact_missing_personalisation=,
\*       preview_mode=)
FieldInit ==
    /\ fPieces \in ContentsOf(FieldPieces, MaxPieces)
    /\ \E va \in FieldValuesOfA, vb \in FieldValuesOfB : fValues = DictOf(va, vb)
    /\ fHtml \in Sanitizers
    /\ fMarkdownLists \in BOOLEAN
    /\ fRedact \in BOOLEAN
    /\ fPreview \in BOOLEAN
    /\ fWithBrackets = TRUE
    /\ FieldFresh
    /\ T2Idle /\ SmsIdle /\ CtorIdle /\ FmtIdle /\ ExtIdle

\* Field(content, values, html=, preview_mode=, with_brackets=)
MaskInit ==
    /\ fPieces \in ContentsOf(MaskPieces, MaxMaskPieces)
    /\ fValues \in {DictOf(AbsentV, AbsentV), DictOf(StrV(<<"v">>), AbsentV)}
    /\ fHtml \in Sanitizers
    /\ fMarkdownLists = FALSE
    /\ fRedact = FALSE
    /\ fPreview \in BOOLEAN
    /\ fWithBrackets \in BOOLEAN
    /\ FieldFresh
    /\ T2Idle /\ SmsIdle /\ CtorIdle /\ FmtIdle /\ ExtIdle

\* reading the property Field.replaced
ReadReplaced ==
    /\ fOp' = "replaced"
    /\ fOut' = replaced(TheField)
    /\ UNCHANGED <<fPieces, fValues, fHtml, fMarkdownLists, fRedact, fPreview,
                   fWithBrackets, fPlaceholders, fUrls, fCalls>>
    /\ UNCHANGED <<t2Vars, smsVars, ctorVars, fmtVars, extVars>>

\* reading the property Field.formatted
ReadFormatted ==
    /\ fCalls < MaxCalls
    /\ LET r == formatted(TheField, fPlaceholders, fUrls)
       IN  /\ fOut' = Ok(r.out)
           /\ fPlaceholders' = r.placeholders
           /\ fUrls' = r.urls
    /\ fOp' = "formatted"
    /\ fCalls' = fCalls + 1
    /\ UNCHANGED <<fPieces, fValues, fHtml, fMarkdownLists, fRedact, fPreview,
                   fWithBrackets>>
    /\ UNCHANGED <<t2Vars, smsVars, ctorVars, fmtVars, extVars>>

\* reading the property Field._raw_formatted
ReadRawFormatted ==
    /\ fCalls < MaxCalls
    /\ LET r == raw_formatted(TheField, fPlaceholders, fUrls)
       IN  /\ fOut' = Ok(r.out)
           /\ fPlaceholders' = r.placeholders
           /\ fUrls' = r.urls
    /\ fOp' = "_raw_formatted"
    /\ fCalls' = fCalls + 1
    /\ UNCHANGED <<fPieces, fValues, fHtml, fMarkdownLists, fRedact, fPreview,
                   fWithBrackets>>
    /\ UNCHANGED <<t2Vars, smsVars, ctorVars, fmtVars, extVars>>

\* Field.replaced over contents of placeholders and text
FieldNext == ReadReplaced

SpecField == FieldInit /\ [][FieldNext]_vars

\* Field.formatted, Field._raw_formatted and Field.replaced over contents with
\* links and token text
MaskNext == ReadFormatted \/ ReadRawFormatted \/ ReadReplaced

SpecMask == MaskInit /\ [][MaskNext]_vars

(***************************************************************************)
(* What the pieces of a content are, told from the pieces themselves.      *)
(***************************************************************************)
IsPlainPiece(p) == p \in {PieceA, PieceB}
IsCondPiece(p) == p \in {PieceCondA, PieceCondB}
HasPlaceholder(p) == IsPlainPiece(p) \/ IsCondPiece(p) \/ p = PieceLinkA

\* the personalisation key a placeholder piece asks for
KeyOfPiece(p) == IF p \in {PieceA, PieceCondA, PieceLinkA} THEN <<"a">> ELSE <<"b">>

ValueOfPiece(p) == DictGet(fValues, KeyOfPiece(p))

\* a value is there: not None, and a list holds something truthy
HasValue(v) ==
    /\ v # NoneV
    /\ v.t = "list" =>
           \E k \in 1..Len(v.items) : v.items[k].t = "str" /\ v.items[k].s # <<>>

\* the texts a personalisation value carries
TextsOf(v) ==
    IF v.t = "list" THEN {v.items[k].s : k \in 1..Len(v.items)} ELSE {v.s}

NullExc == "NullValueForNonConditionalPlaceholderException"

\* Field.replaced of the pieces from..to of the state's content
ReplacedOfPieces(from, to) ==
    replaced([TheField EXCEPT !.content = Flatten(SubSeq(fPieces, from, to))]).out

\* the output has text in the place of piece k
PieceRenderedAs(k, text) ==
    fOut.out = ReplacedOfPieces(1, k - 1) \o text
                   \o ReplacedOfPieces(k + 1, Len(fPieces))

(***************************************************************************)
(* C2.  Not in preview mode and with redaction off, Field.replaced raises  *)
(* NullValueForNonConditionalPlaceholderException whenever a               *)
(* non-conditional placeholder of the content has no value (key absent,    *)
(* None, or a list with nothing truthy); with redaction on, or when only   *)
(* conditional placeholders lack a value, that exception is not raised.    *)
(***************************************************************************)
SomePlainPieceLacksValue ==
    \E k \in 1..Len(fPieces) :
        IsPlainPiece(fPieces[k]) /\ ~HasValue(ValueOfPiece(fPieces[k]))

C2_NullValueRaises ==
    fOp = "replaced" =>
        /\ (~fPreview /\ ~fRedact /\ SomePlainPieceLacksValue) => fOut.exc = NullExc
        /\ (fRedact \/ ~SomePlainPieceLacksValue) => fOut.exc # NullExc

C2_Witness ==
    /\ fOp = "replaced"
    /\ fOut.exc = NullExc
    /\ fPieces = <<PieceB, PieceA>>
    /\ DictGet(fValues, <<"a">>) = ListV(<<StrV(<<>>), NoneV>>)
    /\ DictGet(fValues, <<"b">>) = StrV(<<"w">>)

(***************************************************************************)
(* C3.  As claimed: for every ((name)) token whose name has a value, the   *)
(* output of Field.replaced contains the sanitized value and does not      *)
(* contain the token text.                                                 *)
(* As amended: not in preview mode, the output has the sanitized value in  *)
(* the token's place, and the token text does not occur in the output      *)
(* unless a personalisation value itself contains it.                      *)
(***************************************************************************)
SanitizedValue(v) ==
    Sanitize(fHtml, IF v.t = "list"
                    THEN get_replacement_as_list(TheField, FilterTruthy(v.items))
                    ELSE Str(v))

SomeValueContains(text) ==
    \E k \in 1..Len(fValues) : \E t \in TextsOf(fValues[k][2]) : Contains(t, text)

ConditionalTextWith(p, text) ==
    IF p = PieceCondA THEN <<"y">> \o text ELSE <<"y">>

ExpectedConditional(p, v) ==
    IF Str(v) = <<>> \/ Str(v) = FalseStr THEN <<>>
    ELSE ConditionalTextWith(p, Sanitize(fHtml, Str(v)))

C5_ConditionalRendering ==
    (fOp = "replaced" /\ fOut.exc = "none") =>
        \A k \in 1..Len(fPieces) :
            (IsCondPiece(fPieces[k]) /\ ValueOfPiece(fPieces[k]) # NoneV) =>
                PieceRenderedAs(k, ExpectedConditional(fPieces[k],
                                                       ValueOfPiece(fPieces[k])))

(***************************************************************************)
(* C6.  For a list value, Field.get_replacement first drops the falsy      *)
(* items; if none is left the value counts as absent (None); otherwise the *)
(* items left are joined in their order, as a markdown bullet list ("* "   *)
(* lines after a blank line) under markdown_lists and as "a, b and c"      *)
(* otherwise; Field.replaced puts that text, sanitized, in the token's     *)
(* place.                                                                  *)
(***************************************************************************)
\* the items of a list value that are neither None nor ''
RECURSIVE KeptItems(_)
KeptItems(items) ==
    IF items = <<>> THEN <<>>
    ELSE (IF Head(items).t = "str" /\ Head(items).s # <<>>
          THEN <<Head(items).s>> ELSE <<>>) \o KeptItems(Tail(items))

RECURSIVE BulletLines(_)
BulletLines(texts) ==
    IF texts = <<>> THEN <<>>
    ELSE <<"\n", "*", " ">> \o Head(texts) \o BulletLines(Tail(texts))

RECURSIVE InlinePhrase(_)
InlinePhrase(texts) ==
    IF Len(texts) = 1 THEN texts[1]
    ELSE IF Len(texts) = 2 THEN texts[1] \o <<" ", "and", " ">> \o texts[2]
    ELSE texts[1] \o <<",", " ">> \o InlinePhrase(Tail(texts))

ExpectedListText(items) ==
    IF fMarkdownLists THEN <<"\n">> \o BulletLines(KeptItems(items))
    ELSE InlinePhrase(KeptItems(items))

C6_ListReplacement ==
    \A k \in 1..Len(fPieces) :
        (IsPlainPiece(fPieces[k]) /\ ValueOfPiece(fPieces[k]).t = "list") =>
            LET items == ValueOfPiece(fPieces[k]).items
                got == get_replacement(TheField, PlaceholderBody(fPieces[k]))
            IN  /\ KeptItems(items) = <<>> => got = NoReplacement
                /\ KeptItems(items) # <<>> =>
                       /\ got = Replacement(Sanitize(fHtml, ExpectedListText(items)))
                       /\ (fOp = "replaced" /\ fOut.exc = "none" /\ ~fPreview) =>
                              PieceRenderedAs(k, got.s)

C6_Witness ==
    /\ fOp = "replaced"
    /\ fOut.exc = "none"
    /\ fPieces = <<PieceX, PieceA>>
    /\ DictGet(fValues, <<"a">>) = ListV(<<StrV(<<"v">>), StrV(<<>>), StrV(<<"w">>)>>)
    /\ \/ fMarkdownLists /\ fOut.out = <<"x", "\n", "\n", "*", " ", "v", "\n", "*", " ", "w">>
       \/ ~fMarkdownLists /\ ~fPreview /\ fOut.out = <<"x", "v", " ", "and", " ", "w">>

(***************************************************************************)
(* C8.  As claimed: in redaction mode a Field renders every placeholder as *)
(* the fixed marker, whether or not a value is available and whether or    *)
(* not it is conditional.                                                  *)
(* As amended: in redaction mode format_match gives the fixed marker for   *)
(* every placeholder, conditional or not, and Field.replaced shows the     *)
(* marker for exactly the placeholders it does not substitute: those with  *)
(* no value and, in preview mode, every non-conditional one; a placeholder *)
(* with a value is substituted as without redaction.                       *)
(***************************************************************************)
C8_Original ==
    (fOp = "replaced" /\ fOut.exc = "none" /\ fRedact) =>
        \A k \in 1..Len(fPieces) :
            HasPlaceholder(fPieces[k]) => PieceRenderedAs(k, placeholder_tag_redacted)

\* Field.replaced does not substitute piece k
NotSubstituted(p) ==
    \/ IsPlainPiece(p) /\ (fPreview \/ ~HasValue(ValueOfPiece(p)))
    \/ IsCondPiece(p) /\ ValueOfPiece(p) = NoneV

C8_RedactsWhatIsNotSubstituted ==
    fRedact =>
        \A k \in 1..Len(fPieces) :
            HasPlaceholder(fPieces[k]) =>
                /\ format_match(TheField, fPieces[k]) = placeholder_tag_redacted
                /\ (fOp = "replaced" /\ fOut.exc = "none") =>
                       /\ NotSubstituted(fPieces[k]) =>
                              PieceRenderedAs(k, placeholder_tag_redacted)
                       /\ ~NotSubstituted(fPieces[k]) =>
                              /\ ~PieceRenderedAs(k, placeholder_tag_redacted)
                              /\ PieceRenderedAs(k,
                                     replaced([TheField EXCEPT
                                                  !.redact = FALSE,
                                                  !.content = fPieces[k]]).out)

C8_Witness ==
    /\ fOp = "replaced"
    /\ fRedact
    /\ ~fPreview
    /\ fPieces = <<PieceCondB, PieceA>>
    /\ DictGet(fValues, <<"a">>) = StrV(<<"v">>)
    /\ DictGet(fValues, <<"b">>) = NoneV
    /\ fOut = Ok(placeholder_tag_redacted \o <<"v">>)

(***************************************************************************)
(* C4.  "Unchanged" is read as the code can meet it at all: the content as *)
(* the sanitizer of the Field leaves it, which is the content itself under *)
(* the passthrough sanitizer and for text without markup.                  *)
(***************************************************************************)
ZeroPlaceholders == \A k \in 1..Len(fPieces) : ~HasPlaceholder(fPieces[k])

SanitizedContent == Sanitize(fHtml, Flatten(fPieces))

\* C4: for all content with zero placeholders, Field.formatted returns the content
\* unchanged and Field.replaced returns the content unchanged for any values.
C4_ContentReturned ==
    (ZeroPlaceholders /\ fOp \in {"replaced", "formatted"}) =>
        fOut = Ok(SanitizedContent)

\* text of the shape of a masking token, or a markdown link directly followed by
\* a digit
HasTokenText(s) ==
    \/ \E i \in 1..Len(s) : s[i] \in {VarToken, UrlToken} /\ At(s, i + 1) \in Digits
    \/ \E i \in 1..Len(s) :
           UrlMatchLen(s, i) > 0 /\ At(s, i + UrlMatchLen(s, i)) \in Digits

\* what does hold of such content: Field.replaced returns it as sanitized, and so
\* does Field.formatted unless the text holds what restoration rewrites
ContentReturnedWithoutTokenText ==
    ZeroPlaceholders =>
        /\ fOp = "replaced" => fOut = Ok(SanitizedContent)
        /\ (fOp = "formatted" /\ ~HasTokenText(SanitizedContent)) =>
               fOut = Ok(SanitizedContent)

(***************************************************************************)
(* template2.py: render_notify_markdown and make_substitutions.            *)
(***************************************************************************)
\* \s and \S of the regular expressions
Whitespace == {" ", "\n", "\t"}

PlaceholderOpen == "PLACEHOLDER_"
PlaceholderClose == "_PLACEHOLDER"

\* PLACEHOLDER_REGEX.sub('PLACEHOLDER_\g<key>_PLACEHOLDER', markdown), from s[i] on
RECURSIVE PLACEHOLDER_REGEX_sub(_, _)
PLACEHOLDER_REGEX_sub(s, i) ==
    IF i > Len(s) THEN <<>>
    ELSE LET n == RunLen(s, i + 2, WordChars)
         IN  IF /\ StartsWithAt(s, i, <<"(", "(">>)
                /\ n >= 1
                /\ StartsWithAt(s, i + 2 + n, <<")", ")">>)
             THEN <<PlaceholderOpen>> \o SubSeq(s, i + 2, i + 1 + n)
                  \o <<PlaceholderClose>> \o PLACEHOLDER_REGEX_sub(s, i + 4 + n)
             ELSE <<s[i]>> \o PLACEHOLDER_REGEX_sub(s, i + 1)

\* the index of the first atom of class cls at or after s[i], 0 when there is none
RECURSIVE IndexOf(_, _, _)
IndexOf(s, i, cls) ==
    IF i > Len(s) THEN 0
    ELSE IF s[i] \in cls THEN i
    ELSE IndexOf(s, i + 1, cls)

\* an inline link [text](url) of the markdown that starts at s[i]:
\* [close, end] are the indexes of its "]" and its ")", or close = 0
InlineLinkAt(s, i) ==
    LET close == IndexOf(s, i + 1, {"[", "]"})
        end == IF close = 0 THEN 0
               ELSE IndexOf(s, close + 2, Whitespace \cup {"(", ")"})
    IN  IF /\ At(s, i) = "["
           /\ close > i + 1
           /\ s[close] = "]"
           /\ At(s, close + 1) = "("
           /\ end > close + 2
           /\ s[end] = ")"
        THEN [close |-> close, end |-> end]
        ELSE [close |-> 0, end |-> 0]

\* the inline rendering of a paragraph: HTMLRenderer.link, NotifyMarkdownRenderer.link
RECURSIVE RenderInline(_, _, _)
RenderInline(s, i, as_html) ==
    IF i > Len(s) THEN <<>>
    ELSE LET m == InlineLinkAt(s, i)
             text == SubSeq(s, i + 1, m.close - 1)
             url == SubSeq(s, m.close + 2, m.end - 1)
         IN  IF m.close = 0 THEN <<s[i]>> \o RenderInline(s, i + 1, as_html)
             ELSE (IF as_html
                   THEN <<"<a", " ", "href=\"">> \o url \o <<"\"", ">">> \o text
                        \o <<"</a>">>
                   ELSE text \o <<":", " ">> \o url)
                  \o RenderInline(s, m.end + 1, as_html)

\* str.strip() of a paragraph's text
StripText(s) == rstrip(lstrip(s, Whitespace), Whitespace)

\* notify_html_markdown(markdown) of a single paragraph
notify_html_markdown(markdown) ==
    LET text == RenderInline(StripText(markdown), 1, TRUE)
    IN  IF text = <<>> THEN <<>> ELSE <<"<p>">> \o text \o <<"</p>", "\n">>

\* notify_markdown(markdown) of a single paragraph
notify_markdown(markdown) ==
    RenderInline(StripText(markdown), 1, FALSE) \o <<"\n">>

\* the key of the pattern of make_substitutions, (\S+?)(?:_PLACEHOLDER), when
\* PLACEHOLDER_ is t[j]: the index of the closing _PLACEHOLDER, or 0
KeyEnd(t, j) ==
    LET e == IndexOf(t, j + 2, {PlaceholderClose} \cup Whitespace)
    IN  IF At(t, j + 1) \notin Whitespace \cup {"<eof>"} /\ e > 0 /\ t[e] = PlaceholderClose
        THEN e ELSE 0

\* (?:\S*?PLACEHOLDER_) from t[j] on: the index of the first PLACEHOLDER_ that
\* only non-whitespace separates from t[j] and that a key follows, or 0
RECURSIVE OpenFrom(_, _)
OpenFrom(t, j) ==
    IF j > Len(t) \/ t[j] \in Whitespace THEN 0
    ELSE IF t[j] = PlaceholderOpen /\ KeyEnd(t, j) > 0 THEN j
    ELSE OpenFrom(t, j + 1)

\* re.findall(r'(http)?(?:\S*?PLACEHOLDER_)(\S+?)(?:_PLACEHOLDER)', template)
RECURSIVE FindPlaceholders(_, _)
FindPlaceholders(t, i) ==
    IF i > Len(t) THEN <<>>
    ELSE LET http == t[i] = "http" /\ OpenFrom(t, i + 1) > 0
             open == IF http THEN OpenFrom(t, i + 1) ELSE OpenFrom(t, i)
         IN  IF open = 0 THEN FindPlaceholders(t, i + 1)
             ELSE <<[http |-> http, key |-> SubSeq(t, open + 1, KeyEnd(t, open) - 1)]>>
                  \o FindPlaceholders(t, KeyEnd(t, open) + 1)

\* '%{ord(c):02X}' of a whitespace character
PercentEncoded(c) ==
    CASE c = " " -> "%20" [] c = "\n" -> "%0A" [] c = "\t" -> "%09"

\* encode_whitespace(m), and re.sub(r'\s', encode_whitespace, value)
encode_whitespace(s) ==
    [k \in 1..Len(s) |-> IF s[k] \in Whitespace THEN PercentEncoded(s[k]) ELSE s[k]]

\* str.lower()
lower(s) == [k \in 1..Len(s) |-> LowerChar(s[k])]

\* the loop "for key in personalization" of the plain text branch, from item k on:
\* [exc, pers], pers being the dict as the loop leaves it
RECURSIVE EscapeUrlValues(_, _, _)
EscapeUrlValues(pers, k, placeholders) ==
    IF k > Len(pers) THEN [exc |-> "none", pers |-> pers]
    ELSE LET key == pers[k][1]
             value == pers[k][2]
             in_url == \E n \in 1..Len(placeholders) :
                           placeholders[n].http /\ placeholders[n].key = key
         IN  IF value.t = "list" THEN EscapeUrlValues(pers, k + 1, placeholders)
             ELSE IF value.t # "str" THEN [exc |-> "AttributeError", pers |-> pers]
             ELSE IF Contains(lower(value.s), <<"http">>) \/ in_url
                  THEN EscapeUrlValues(
                           [pers EXCEPT ![k] = <<key, StrV(encode_whitespace(value.s))>>],
                           k + 1, placeholders)
             ELSE EscapeUrlValues(pers, k + 1, placeholders)

\* str.replace(old, new), from s[i] on
RECURSIVE str_replace(_, _, _, _)
str_replace(s, i, old, new) ==
    IF i > Len(s) THEN <<>>
    ELSE IF StartsWithAt(s, i, old)
         THEN new \o str_replace(s, i + Len(old), old, new)
    ELSE <<s[i]>> \o str_replace(s, i + 1, old, new)

\* the source's bullet of a plain text list item
PlainTextBullet == "<bullet>"

\* the substitution of a list value
ListSubstitution(value, as_html) ==
    LET li(k) == IF as_html THEN <<"<li>">> \o Str(value.items[k]) \o <<"</li>">>
                 ELSE <<PlainTextBullet, " ">> \o Str(value.items[k])
        lines == JoinWith([k \in 1..Len(value.items) |-> li(k)], <<"\n">>)
    IN  IF as_html THEN <<"\n", "<ul>", "\n">> \o lines \o <<"\n", "</ul>", "\n">>
        ELSE <<"\n">> \o lines \o <<"\n">>

\* the loop "for key, value in personalization.items()", from item k on
RECURSIVE SubstituteValues(_, _, _, _)
SubstituteValues(template, pers, k, as_html) ==
    IF k > Len(pers) THEN Ok(template)
    ELSE LET key == pers[k][1]
             value == pers[k][2]
             token == <<PlaceholderOpen>> \o key \o <<PlaceholderClose>>
         IN  IF value.t = "list"
             THEN SubstituteValues(
                      str_replace(template, 1, token, ListSubstitution(value, as_html)),
                      pers, k + 1, as_html)
             ELSE IF value.t # "str" THEN Raise("TypeError")
             ELSE SubstituteValues(str_replace(template, 1, token, value.s),
                                   pers, k + 1, as_html)

\* re.sub(r'(?<=href=")(?P<url>.+?)(?=")', encode_whitespace, template), from s[i] on
RECURSIVE EncodeHrefs(_, _)
EncodeHrefs(s, i) ==
    IF i > Len(s) THEN <<>>
    ELSE LET j == IndexOf(s, i + 1, {"\"", "\n"})
         IN  IF At(s, i - 1) = "href=\"" /\ s[i] # "\n" /\ j > 0 /\ s[j] = "\""
             THEN encode_whitespace(SubSeq(s, i, j - 1)) \o EncodeHrefs(s, j)
             ELSE <<s[i]>> \o EncodeHrefs(s, i + 1)

\* make_substitutions(template, personalization, as_html):
\* [exc, out, missing, pers], pers being the caller's dict after the call
make_substitutions(template, personalization, as_html) ==
    LET placeholders == FindPlaceholders(template, 1)
        unique_placeholders == {placeholders[n].key : n \in 1..Len(placeholders)}
        escaped == IF as_html THEN [exc |-> "none", pers |-> personalization]
                   ELSE EscapeUrlValues(personalization, 1, placeholders)
        substituted == SubstituteValues(template, escaped.pers, 1, as_html)
    IN  IF Len(personalization) < Cardinality(unique_placeholders)
        THEN [exc |-> "ValueError", out |-> <<>>,
              missing |-> {key \in unique_placeholders : ~DictHas(personalization, key)},
              pers |-> personalization]
        ELSE IF escaped.exc # "none"
        THEN [exc |-> escaped.exc, out |-> <<>>, missing |-> {}, pers |-> escaped.pers]
        ELSE IF substituted.exc # "none"
        THEN [exc |-> substituted.exc, out |-> <<>>, missing |-> {}, pers |-> escaped.pers]
        ELSE [exc |-> "none",
              out |-> IF as_html THEN EncodeHrefs(substituted.out, 1) ELSE substituted.out,
              missing |-> {}, pers |-> escaped.pers]

(***************************************************************************)
(* formatters2.py: insert_action_links.                                    *)
(***************************************************************************)
\* the index that ends the line of s[i]: of its "\n", or Len(s) + 1
EndOfLine(s, i) ==
    LET n == IndexOf(s, i, {"\n"}) IN IF n = 0 THEN Len(s) + 1 ELSE n

\* (?P<block_quote> {0,3}(?:>|\^)[ \t]+) at s[i]: its length, or 0
BlockQuoteLen(s, i) ==
    LET n == RunLen(s, i, {" "})
        w == RunLen(s, i + n + 1, {" ", "\t"})
    IN  IF n <= 3 /\ At(s, i + n) \in {">", "^"} /\ w >= 1 THEN n + 1 + w ELSE 0

\* the last ")" of s[from..to], or 0
RECURSIVE LastParen(_, _, _)
LastParen(s, from, to) ==
    IF to < from THEN 0
    ELSE IF s[to] = ")" THEN to
    ELSE LastParen(s, from, to - 1)

\* ACTION_LINK_PATTERN at the start of a line, s[i]: the groups of the match and
\* the index after it, or end = 0
ActionLinkAt(s, i) ==
    LET bq == BlockQuoteLen(s, i)
        p == i + bq
        close == IndexOf(s, p + 3, {"]"})
        ws == IndexOf(s, close + 2, Whitespace)
        run_end == IF ws = 0 THEN Len(s) ELSE ws - 1
        paren == LastParen(s, close + 3, run_end)
        eol == EndOfLine(s, paren + 1)
    IN  IF /\ At(s, p) \in {">", "&gt;"}
           /\ At(s, p + 1) \in {">", "&gt;"}
           /\ At(s, p + 2) = "["
           /\ close > p + 3
           /\ At(s, close + 1) = "("
           /\ paren > 0
        THEN [end |-> eol,
              block_quote |-> bq > 0,
              link_text |-> SubSeq(s, p + 3, close - 1),
              url |-> SubSeq(s, close + 2, paren - 1),
              extra |-> SubSeq(s, paren + 1, eol - 1)]
        ELSE [end |-> 0, block_quote |-> FALSE, link_text |-> <<>>, url |-> <<>>,
              extra |-> <<>>]

\* the <img ...> of _get_action_link_html_substitution
ActionLinkImg ==
    <<"<img", " ", "alt=\"call", " ", "to", " ", "action", " ", "img\"", " ",
      "aria-hidden=\"true\"", " ", "src=\"", "http", "s://", "<img_env>",
      "-va-gov-assets.s3-us-gov-west-1.amazonaws.com/img/vanotify-action-link.png",
      "\"", " ", "class=\"action_link\"", " ", "style=\"margin-right:", " ", "2mm;",
      " ", "vertical-align:", " ", "middle;\"", ">">>

\* a slip: the text after the link left on the line, with no block quote marker
ActionLinkExtra_M(m) ==
    IF m.extra = <<>> THEN <<>> ELSE m.extra \o <<"\n">>

\* the text that follows the action link on its line
ActionLinkExtra(m) ==
    IF m.extra = <<>> THEN <<>>
    ELSE (IF m.block_quote THEN <<"\n", ">", " ">> ELSE <<>>) \o m.extra \o <<"\n">>

_get_action_link_html_substitution(m) ==
    (IF m.block_quote THEN <<">", " ">> ELSE <<"\n", "\n">>)
    \o <<"<a", " ", "href=\"">> \o m.url \o <<"\"", ">">> \o ActionLinkImg
    \o <<"<b>">> \o m.link_text \o <<"</b>", "</a>">>
    \o (IF m.block_quote THEN <<"\n", ">">> ELSE <<"\n", "\n">>)
    \o ActionLinkExtra(m)

_get_action_link_plain_text_substitution(m) ==
    (IF m.block_quote THEN <<">", " ">> ELSE <<>>)
    \o <<"[">> \o m.link_text \o <<"]", "(">> \o m.url \o <<")">>
    \o (IF m.block_quote THEN <<"\n", ">">> ELSE <<"\n", "\n">>)
    \o ActionLinkExtra(m)

\* ACTION_LINK_PATTERN.sub(substitution, markdown), from s[i] on
RECURSIVE SubActionLinks(_, _, _)
SubActionLinks(s, i, as_html) ==
    IF i > Len(s) THEN <<>>
    ELSE LET m == ActionLinkAt(s, i)
         IN  IF (i = 1 \/ s[i - 1] = "\n") /\ m.end > 0
             THEN (IF as_html THEN _get_action_link_html_substitution(m)
                   ELSE _get_action_link_plain_text_substitution(m))
                  \o SubActionLinks(s, m.end, as_html)
             ELSE <<s[i]>> \o SubActionLinks(s, i + 1, as_html)

insert_action_links(markdown, as_html) == SubActionLinks(markdown, 1, as_html)

(***************************************************************************)
(* template2.py: render_notify_markdown.  Its personalization argument is  *)
(* [type, items]: the Python type of the object and, of a dict, its items. *)
(***************************************************************************)
\* a slip: the substitution entered for every dict, the empty one included
render_notify_markdown_M(markdown, personalization, as_html) ==
    LET converted == PLACEHOLDER_REGEX_sub(markdown, 1)
        linked == insert_action_links(converted, as_html)
        rendered == IF as_html THEN notify_html_markdown(linked)
                    ELSE notify_markdown(linked)
        steps == <<"PLACEHOLDER_REGEX.sub", "insert_action_links", "render">>
    IN  IF personalization.type \notin {"none", "dict"}
        THEN [exc |-> "TypeError", out |-> <<>>, steps |-> <<>>, missing |-> {},
              pers |-> personalization]
        ELSE IF personalization.type = "dict"
        THEN LET r == make_substitutions(rendered, personalization.items, as_html)
             IN  [exc |-> r.exc, out |-> r.out,
                  steps |-> Append(steps, "make_substitutions"),
                  missing |-> r.missing,
                  pers |-> [personalization EXCEPT !.items = r.pers]]
        ELSE [exc |-> "none", out |-> rendered, steps |-> steps, missing |-> {},
              pers |-> personalization]

\* render_notify_markdown(markdown, personalization, as_html):
\* [exc, out, steps, missing, pers]; steps lists the processing steps that ran
render_notify_markdown(markdown, personalization, as_html) ==
    LET converted == PLACEHOLDER_REGEX_sub(markdown, 1)
        linked == insert_action_links(converted, as_html)
        rendered == IF as_html THEN notify_html_markdown(linked)
                    ELSE notify_markdown(linked)
        steps == <<"PLACEHOLDER_REGEX.sub", "insert_action_links", "render">>
        r == make_substitutions(rendered, personalization.items, as_html)
    IN  IF personalization.type \notin {"none", "dict"}
        THEN [exc |-> "TypeError", out |-> <<>>, steps |-> <<>>, missing |-> {},
              pers |-> personalization]
        ELSE IF personalization.type = "dict" /\ personalization.items # <<>>
        THEN [exc |-> r.exc, out |-> r.out,
              steps |-> Append(steps, "make_substitutions"),
              missing |-> r.missing,
              pers |-> [personalization EXCEPT !.items = r.pers]]
        ELSE [exc |-> "none", out |-> rendered, steps |-> steps, missing |-> {},
              pers |-> personalization]

PieceSpace == <<" ">>
T2PieceB == <<"(", "(", "b", ")", ")">>
T2PieceLinkA ==
    <<"[", "l", "]", "(", "http", ":", "/", "/", "u", "?", "x", "=",
      "(", "(", "a", ")", ")", ")">>

\* a link with two placeholders in its URL: [l](http://u/((a))/((b)))
T2PieceLinkAB ==
    <<"[", "l", "]", "(", "http", ":", "/", "/", "u", "/",
      "(", "(", "a", ")", ")", "/", "(", "(", "b", ")", ")", ")">>

T2Pieces == {PieceX, PieceSpace, PieceA, T2PieceB, T2PieceLinkA, T2PieceLinkAB}

\* markdown of one paragraph
T2Contents(n) ==
    {ps \in ContentsOf(T2Pieces, n) : \E k \in 1..Len(ps) : ps[k] # PieceSpace}

T2Keys == {<<"a">>, <<"b">>, <<"e">>}

ValueMarkup == <<"<", "i", ">">>

T2Values ==
    { StrV(<<"v">>), StrV(ValueMarkup), StrV(<<"v", " ", "w">>),
      ListV(<<StrV(<<"v">>), StrV(ValueMarkup)>>), NoneV }

\* the dicts of at most n items
T2Dicts(n) ==
    UNION {{d \in [1..k -> T2Keys \X T2Values] :
                \A i, j \in 1..k : i # j => d[i][1] # d[j][1]} : k \in 0..n}

DictP(items) == [type |-> "dict", items |-> items]
NotADict == {[type |-> t, items |-> <<>>] : t \in {"none", "list", "bool", "str"}}

T2Init ==
    /\ tPieces \in T2Contents(MaxT2Pieces)
    /\ tPers \in {DictP(d) : d \in T2Dicts(MaxKeys)} \cup NotADict
    /\ tAsHtml \in BOOLEAN
    /\ tOp = "new"
    /\ tOut = [exc |-> "none", out |-> <<>>, steps |-> <<>>, missing |-> {}]
    /\ FieldIdle /\ SmsIdle /\ CtorIdle /\ FmtIdle /\ ExtIdle

\* the call render_notify_markdown(markdown, personalization, as_html)
RenderNotifyMarkdown ==
    /\ tOp = "new"
    /\ \E r \in {render_notify_markdown(Flatten(tPieces), tPers, tAsHtml)} :
           /\ tOut' = [exc |-> r.exc, out |-> r.out, steps |-> r.steps,
                       missing |-> r.missing]
           /\ tPers' = r.pers
    /\ tOp' = "rendered"
    /\ UNCHANGED <<tPieces, tAsHtml, fieldVars, smsVars, ctorVars, fmtVars, extVars>>

T2Next == RenderNotifyMarkdown

SpecT2 == T2Init /\ [][T2Next]_vars

(***************************************************************************)
(* Claims about render_notify_markdown.                                    *)
(***************************************************************************)
\* the keys of the ((key)) placeholders the markdown was written with
KeysOfPieces(ps) ==
    {<<"a">> : k \in {k \in 1..Len(ps) : ps[k] \in {PieceA, T2PieceLinkA, T2PieceLinkAB}}}
        \cup {<<"b">> : k \in {k \in 1..Len(ps) : ps[k] \in {T2PieceB, T2PieceLinkAB}}}

MissingKeys == {key \in KeysOfPieces(tPieces) : ~DictHas(tPers.items, key)}

\* a dict of at least one entry, every value a str or a list
UsablePersonalization ==
    /\ tPers.type = "dict"
    /\ tPers.items # <<>>
    /\ \A k \in 1..Len(tPers.items) : tPers.items[k][2].t \in {"str", "list"}

\* C1: whenever the personalization dict has an entry and lacks the key of some
\* ((key)) placeholder of the markdown, render_notify_markdown raises ValueError
\* naming exactly the missing keys, whatever other keys the dict holds.
C1_MissingKeyRaises ==
    (tOp = "rendered" /\ UsablePersonalization /\ MissingKeys # {})
        => (tOut.exc = "ValueError" /\ tOut.missing = MissingKeys)

\* a value holding markup was handed in for a placeholder of the markdown
MarkupValueSubstituted ==
    \E k \in 1..Len(tPers.items) :
        /\ tPers.items[k][1] \in KeysOfPieces(tPieces)
        /\ \/ tPers.items[k][2] = StrV(ValueMarkup)
           \/ /\ tPers.items[k][2].t = "list"
              /\ \E n \in 1..Len(tPers.items[k][2].items) :
                     tPers.items[k][2].items[n] = StrV(ValueMarkup)

\* C7: in the HTML that render_notify_markdown returns, no personalization value,
\* scalar or list item, has introduced an HTML tag: the tag a value holds is not
\* part of the output.
C7_NoTagFromValue ==
    (tOp = "rendered" /\ tAsHtml /\ tOut.exc = "none" /\ UsablePersonalization
     /\ MarkupValueSubstituted)
        => ~Contains(tOut.out, ValueMarkup)

\* C7, for Field.replaced: with the escape or the strip sanitizer no "<" of a value
\* or of the content reaches the output.
C7_FieldSanitizesValues ==
    (fOp = "replaced" /\ fOut.exc = "none" /\ fHtml # "passthrough")
        => ~Contains(fOut.out, <<"<">>)

(***************************************************************************)
(* template.py: get_sms_fragment_count.                                    *)
(***************************************************************************)
\* math.ceil(float(n) / d), exact for the counts of the model
CeilDiv(n, d) == (n + d - 1) \div d

get_sms_fragment_count_M(character_count, is_unicode) ==
    IF is_unicode
    THEN IF character_count <= 70 THEN 1 ELSE CeilDiv(character_count, 67)
    ELSE IF character_count < 160 THEN 1 ELSE CeilDiv(character_count, 153)

get_sms_fragment_count(character_count, is_unicode) ==
    IF is_unicode
    THEN IF character_count <= 70 THEN 1 ELSE CeilDiv(character_count, 67)
    ELSE IF character_count <= 160 THEN 1 ELSE CeilDiv(character_count, 153)

SmsInit ==
    /\ sCount \in 0..MaxCount
    /\ sUnicode \in BOOLEAN
    /\ sFragments = 0
    /\ FieldIdle /\ T2Idle /\ CtorIdle /\ FmtIdle /\ ExtIdle

\* the call get_sms_fragment_count(character_count, is_unicode)
CountFragments ==
    /\ sFragments = 0
    /\ sFragments' = get_sms_fragment_count(sCount, sUnicode)
    /\ UNCHANGED <<sCount, sUnicode, fieldVars, t2Vars, ctorVars, fmtVars, extVars>>

\* the call for a message one character longer
CountLonger ==
    /\ sFragments > 0
    /\ sCount < MaxCount
    /\ sCount' = sCount + 1
    /\ sFragments' = get_sms_fragment_count(sCount + 1, sUnicode)
    /\ UNCHANGED <<sUnicode, fieldVars, t2Vars, ctorVars, fmtVars, extVars>>

SmsNext == CountFragments \/ CountLonger

SpecSms == SmsInit /\ [][SmsNext]_vars

\* the count is k: k fragments of per characters hold n, k - 1 do not
IsCeiling(k, n, per) == per * (k - 1) < n /\ n <= per * k

FragmentCountAsSpecified ==
    LET single == IF sUnicode THEN 70 ELSE 160
        per == IF sUnicode THEN 67 ELSE 153
    IN  /\ sCount <= single => sFragments = 1
        /\ sCount > single => IsCeiling(sFragments, sCount, per)
        /\ (~sUnicode /\ sCount = 160) => sFragments = 1
        /\ (~sUnicode /\ sCount = 161) => sFragments = 2
        /\ (~sUnicode /\ sCount = 306) => sFragments = 2
        /\ (~sUnicode /\ sCount = 307) => sFragments = 3
        /\ (~sUnicode /\ sCount = 459) => sFragments = 3
        /\ (~sUnicode /\ sCount = 460) => sFragments = 4
        /\ (sUnicode /\ sCount = 70) => sFragments = 1
        /\ (sUnicode /\ sCount = 71) => sFragments = 2

\* C9: get_sms_fragment_count(n, is_unicode) is 1 up to 160 characters (70 when
\* unicode) and the ceiling of n/153 (n/67 when unicode) above, with the listed
\* boundary values, and the count does not decrease when n grows.
C9_FragmentCount ==
    /\ [](sFragments > 0 => FragmentCountAsSpecified)
    /\ [][sFragments > 0 => sFragments' >= sFragments]_vars

\* a message of 307 characters was counted: three fragments
C9_Witness == ~sUnicode /\ sCount = 307 /\ sFragments = 3

(***************************************************************************)
(* template.py: Template.__init__.  The template argument is [type, keys,  *)
(* content]: the Python type of the object and, of a dict, the keys it     *)
(* holds and its content; the values argument is [type, items].            *)
(***************************************************************************)
\* re.findall(Field.placeholder_pattern, content): the set of the bodies
RECURSIVE FindallBodies(_, _)
FindallBodies(text, i) ==
    IF i > Len(text) THEN {}
    ELSE LET n == PlaceholderMatchLen(text, i)
         IN  IF n = 0 THEN FindallBodies(text, i + 1)
             ELSE {SubSeq(text, i + 2, i + n - 3)} \cup FindallBodies(text, i + n)

\* Field(content).placeholder_names
placeholder_names(content) ==
    {PlaceholderName(PlaceholderBody(body)) : body \in FindallBodies(content, 1)}

\* Python truthiness of the values argument
TruthyArg(values) ==
    CASE values.type = "dict" -> values.items # <<>>
      [] values.type = "list" -> values.items # <<>>
      [] values.type = "int" -> TRUE
      [] OTHER -> FALSE

\* the setter of Template.values: the dict it stores, as a set of items
ValuesSetter(content, value) ==
    IF ~TruthyArg(value) THEN {}
    ELSE LET placeholders == placeholder_names(content)
             keys == placeholders \cup
                        {key \in DictKeys(value.items) :
                            make_key(key) \notin {make_key(name) : name \in placeholders}}
         IN  {<<key, ColumnsGet(value.items, key)>> : key \in keys}

AfterContent ==
    <<"values", "template_type", "_template", "redact_missing_personalisation",
      "template_env">>

Template__init___M(template, values) ==
    IF template.type # "dict"
    THEN [exc |-> "TypeError", steps |-> <<>>, values |-> {}]
    ELSE IF TruthyArg(values) /\ values.type # "dict"
    THEN [exc |-> "TypeError", steps |-> <<>>, values |-> {}]
    ELSE IF "content" \notin template.keys
    THEN [exc |-> "KeyError", steps |-> <<"id", "name">>, values |-> {}]
    ELSE IF values.type # "dict"
    THEN [exc |-> "none", steps |-> <<"id", "name", "content">> \o AfterContent,
          values |-> {}]
    ELSE [exc |-> "none",
          steps |-> <<"id", "name", "content">>
                    \o (IF TruthyArg(values) THEN <<"placeholders">> ELSE <<>>)
                    \o AfterContent,
          values |-> ValuesSetter(template.content, values)]

\* Template.__init__(template, values): [exc, steps, values]; steps lists the
\* attributes assigned, and "placeholders" where the content is parsed
Template__init__(template, values) ==
    IF template.type # "dict"
    THEN [exc |-> "TypeError", steps |-> <<>>, values |-> {}]
    ELSE IF values.type # "none" /\ values.type # "dict"
    THEN [exc |-> "TypeError", steps |-> <<>>, values |-> {}]
    ELSE IF "content" \notin template.keys
    THEN [exc |-> "KeyError", steps |-> <<"id", "name">>, values |-> {}]
    ELSE [exc |-> "none",
          steps |-> <<"id", "name", "content">>
                    \o (IF TruthyArg(values) THEN <<"placeholders">> ELSE <<>>)
                    \o AfterContent,
          values |-> ValuesSetter(template.content, values)]

TemplateArgs ==
    {[type |-> "dict", keys |-> {"content"}, content |-> Flatten(ps)] :
        ps \in {<<PieceX>>, <<PieceA>>, <<PieceA, PieceCondB>>}}
    \cup {[type |-> "dict", keys |-> {"id"}, content |-> <<>>]}
    \cup {[type |-> t, keys |-> {}, content |-> <<>>] : t \in {"none", "list", "str"}}

ValuesArgs ==
    {[type |-> "none", items |-> <<>>], [type |-> "bool", items |-> <<>>],
     [type |-> "int", items |-> <<>>], [type |-> "str", items |-> <<>>],
     [type |-> "list", items |-> <<>>],
     [type |-> "list", items |-> << <<(<<"a">>), StrV(<<"v">>)>> >>],
     [type |-> "dict", items |-> <<>>],
     [type |-> "dict", items |-> DictOf(StrV(<<"v">>), AbsentV)],
     [type |-> "dict", items |-> DictOf(StrV(<<"v">>), StrV(<<"w">>))]}

CtorInit ==
    /\ cTemplate \in TemplateArgs
    /\ cValues \in ValuesArgs
    /\ cOp = "new"
    /\ cOut = [exc |-> "none", steps |-> <<>>, values |-> {}]

\* the call Template(template, values)
Construct ==
    /\ cOp = "new"
    /\ cOut' = Template__init__(cTemplate, cValues)
    /\ cOp' = "constructed"
    /\ UNCHANGED <<cTemplate, cValues, fieldVars, t2Vars, smsVars, fmtVars, extVars>>

\* the inputs of render_notify_markdown that the type check tells apart
TypesT2Init ==
    /\ tPieces \in T2Contents(1)
    /\ tPers \in NotADict \cup {DictP(<<>>), DictP(DictOf(StrV(<<"v">>), AbsentV))}
    /\ tAsHtml \in BOOLEAN
    /\ tOp = "new"
    /\ tOut = [exc |-> "none", out |-> <<>>, steps |-> <<>>, missing |-> {}]

TypesInit == CtorInit /\ TypesT2Init /\ FieldIdle /\ SmsIdle /\ FmtIdle /\ ExtIdle

TypesNext == Construct \/ RenderNotifyMarkdown

\* Template(...) and render_notify_markdown(...) over arguments of every type
SpecTypes == TypesInit /\ [][TypesNext]_vars

\* C10: Template(template, values) raises TypeError when template is not a dict or
\* values is neither None nor a dict ([] and False included), and
\* render_notify_markdown raises TypeError when personalization is neither None nor
\* a dict; in both cases no step of the processing has run.
C10_TypeErrorBeforeRendering ==
    /\ (cOp = "constructed"
        /\ (cTemplate.type # "dict" \/ cValues.type \notin {"none", "dict"}))
           => (cOut.exc = "TypeError" /\ cOut.steps = <<>> /\ cOut.values = {})
    /\ (tOp = "rendered" /\ tPers.type \notin {"none", "dict"})
           => (tOut.exc = "TypeError" /\ tOut.steps = <<>> /\ tOut.out = <<>>)

\* Template({'content': ...}, []) and render_notify_markdown(..., False) were called
C10_Witness ==
    /\ cOp = "constructed"
    /\ cTemplate.type = "dict"
    /\ cValues = [type |-> "list", items |-> <<>>]
    /\ tOp = "rendered"
    /\ tPers.type = "bool"

(***************************************************************************)
(* More claims about render_notify_markdown.                               *)
(***************************************************************************)
PlaceholderToken(key) == <<PlaceholderOpen>> \o key \o <<PlaceholderClose>>

\* C11: render_notify_markdown(md, {}) raises nothing, for markdown with
\* placeholders too; it returns what it returns for personalization None, and the
\* placeholders of the markdown are in that output, unsubstituted.
C11_EmptyPersonalization ==
    (tOp = "rendered" /\ tPers = DictP(<<>>)) =>
        /\ tOut.exc = "none"
        /\ tOut.out = render_notify_markdown(Flatten(tPieces),
                          [type |-> "none", items |-> <<>>], tAsHtml).out
        /\ \A key \in KeysOfPieces(tPieces) :
               Contains(tOut.out, PlaceholderToken(key))

\* render_notify_markdown('((a)) ((b))', {}) was called
C11_Witness ==
    /\ tOp = "rendered"
    /\ tPers = DictP(<<>>)
    /\ KeysOfPieces(tPieces) = {<<"a">>, <<"b">>}
    /\ tOut.exc = "none"

\* the URL of a link piece, as the text before each placeholder, the
\* placeholder's key, ..., and the text after the last one
UrlParts(piece) ==
    IF piece = T2PieceLinkA
    THEN <<[text |-> <<"http", ":", "/", "/", "u", "?", "x", "=">>, key |-> <<"a">>]>>
    ELSE <<[text |-> <<"http", ":", "/", "/", "u", "/">>, key |-> <<"a">>],
           [text |-> <<"/">>, key |-> <<"b">>]>>

IsLinkPiece(piece) == piece \in {T2PieceLinkA, T2PieceLinkAB}

\* every placeholder of the link's URL has a str value in the personalization
UrlValuesAreStr(piece) ==
    \A n \in 1..Len(UrlParts(piece)) :
        /\ DictHas(tPers.items, UrlParts(piece)[n].key)
        /\ DictGet(tPers.items, UrlParts(piece)[n].key).t = "str"

\* the URL with the value of each placeholder in place, its whitespace
\* percent-encoded
RECURSIVE EncodedUrl(_, _)
EncodedUrl(piece, n) ==
    IF n > Len(UrlParts(piece)) THEN <<>>
    ELSE UrlParts(piece)[n].text
             \o encode_whitespace(DictGet(tPers.items, UrlParts(piece)[n].key).s)
             \o EncodedUrl(piece, n + 1)

\* some value substituted into the link's URL holds whitespace
UrlValueHasWhitespace(piece) ==
    \E n \in 1..Len(UrlParts(piece)) :
        \E k \in 1..Len(DictGet(tPers.items, UrlParts(piece)[n].key).s) :
            DictGet(tPers.items, UrlParts(piece)[n].key).s[k] \in Whitespace

\* C12: in the output of render_notify_markdown with personalization, the URL
\* of every link holds the personalization values with every whitespace
\* character percent-encoded: in HTML the href attribute is the encoded URL, in
\* plain text the link text is followed by the encoded URL.
C12_UrlWhitespaceEncoded ==
    (tOp = "rendered" /\ tOut.exc = "none" /\ UsablePersonalization) =>
        \A k \in 1..Len(tPieces) :
            (IsLinkPiece(tPieces[k]) /\ UrlValuesAreStr(tPieces[k])) =>
                Contains(tOut.out,
                         IF tAsHtml
                         THEN <<"href=\"">> \o EncodedUrl(tPieces[k], 1) \o <<"\"">>
                         ELSE <<":", " ">> \o EncodedUrl(tPieces[k], 1))

\* supplementary to C12: the HTML output holds every link's URL with the
\* whitespace of its values encoded (values of the model: no line break)
C12_HrefEncoded ==
    (tOp = "rendered" /\ tOut.exc = "none" /\ UsablePersonalization /\ tAsHtml) =>
        \A k \in 1..Len(tPieces) :
            (IsLinkPiece(tPieces[k]) /\ UrlValuesAreStr(tPieces[k])) =>
                Contains(tOut.out,
                         <<"href=\"">> \o EncodedUrl(tPieces[k], 1) \o <<"\"">>)

(***************************************************************************)
(* Calls of the formatters.  A call takes the output of the call before it *)
(* as its input, the first one takes xText.                                *)
(***************************************************************************)
MaxLines == 2
MaxApplications == 2

\* the input of the next call
FmtInput == IF xCalls = <<>> THEN xText ELSE xCalls[Len(xCalls)].out

Called(fn, r) == [fn |-> fn, exc |-> r.exc, out |-> r.out]

(***************************************************************************)
(* formatters2.py: insert_action_links on markdown of up to MaxLines lines. *)
(***************************************************************************)
ActionLinkMarkers == {<<">", ">">>, <<"&gt;", "&gt;">>}
QuoteMarkers == {<<">", " ">>, <<"^", " ">>}

\* a line of markdown: an action link (marker, [link_text](url), the text after
\* it) or other text (body), after a block quote marker or none
LinkLine(quote, marker, url, extra) ==
    [link |-> TRUE, quote |-> quote, marker |-> marker, link_text |-> <<"l">>,
     url |-> url, extra |-> extra, body |-> <<>>]

TextLine(quote, body) ==
    [link |-> FALSE, quote |-> quote, marker |-> <<>>, link_text |-> <<>>,
     url |-> <<>>, extra |-> <<>>, body |-> body]

ActionLinkLines ==
    {LinkLine(q, <<">", ">">>, <<"u">>, e) :
        q \in QuoteMarkers \cup {<<>>}, e \in {<<>>, <<" ", "x">>, <<".">>}}
    \cup {LinkLine(<<>>, <<"&gt;", "&gt;">>, <<"u">>, <<>>),
          LinkLine(<<>>, <<">", ">">>, <<"u", "(", "x", ")">>, <<" ", "x">>)}

\* text that is no action link: plain, block-quoted, and an action link that
\* does not start its line
OtherLines ==
    {TextLine(<<>>, <<"x">>), TextLine(<<">", " ">>, <<"x">>),
     TextLine(<<>>, <<"x", " ", ">", ">", "[", "l", "]", "(", "u", ")">>)}

LineText(line) ==
    line.quote \o
    (IF line.link
     THEN line.marker \o <<"[">> \o line.link_text \o <<"]", "(">> \o line.url
              \o <<")">> \o line.extra
     ELSE line.body)

\* '\n'.join(lines)
RECURSIVE JoinLines(_)
JoinLines(lines) ==
    IF lines = <<>> THEN <<>>
    ELSE IF Len(lines) = 1 THEN lines[1]
    ELSE lines[1] \o <<"\n">> \o JoinLines(Tail(lines))

LinksInit ==
    /\ xPieces \in UNION {[1..n -> ActionLinkLines \cup OtherLines] : n \in 1..MaxLines}
    /\ xText = JoinLines([k \in 1..Len(xPieces) |-> LineText(xPieces[k])])
    /\ xHtml \in BOOLEAN
    /\ xCalls = <<>>
    /\ FieldIdle /\ T2Idle /\ SmsIdle /\ CtorIdle /\ ExtIdle

\* the call insert_action_links(markdown, as_html)
InsertActionLinks ==
    /\ xCalls = <<>>
    /\ xCalls' = Append(xCalls, Called("insert_action_links",
                                       Ok(insert_action_links(FmtInput, xHtml))))
    /\ UNCHANGED <<xPieces, xText, xHtml, fieldVars, t2Vars, smsVars, ctorVars, extVars>>

LinksNext == InsertActionLinks

SpecLinks == LinksInit /\ [][LinksNext]_vars

\* s.split('\n')
RECURSIVE SplitLines(_)
SplitLines(s) ==
    LET n == IndexOf(s, 1, {"\n"})
    IN  IF n = 0 THEN <<s>>
        ELSE <<SubSeq(s, 1, n - 1)>> \o SplitLines(SubSeq(s, n + 1, Len(s)))

\* what stands for the action link of a line: the anchor holding the image and
\* the bold link text, or the ordinary link
LinkRendering(line, as_html) ==
    IF as_html
    THEN <<"<a", " ", "href=\"">> \o line.url \o <<"\"", ">">> \o ActionLinkImg
             \o <<"<b>">> \o line.link_text \o <<"</b>", "</a>">>
    ELSE <<"[">> \o line.link_text \o <<"]", "(">> \o line.url \o <<")">>

\* the output lines hold the rendering of the action link on a line of its own,
\* after '> ' when the link is block-quoted; the text that followed the link is
\* on a later line of its own, and when block-quoted every line from the link
\* to that text starts with '>'
LinkLineReplaced(line, out, as_html) ==
    LET quoted == line.quote # <<>>
        prefix == IF quoted THEN <<">", " ">> ELSE <<>>
    IN  \E j \in 1..Len(out) :
            /\ out[j] = prefix \o LinkRendering(line, as_html)
            /\ quoted => (j < Len(out) /\ out[j + 1] = <<">">>)
            /\ line.extra # <<>> =>
                   \E m \in (j + 1)..Len(out) :
                       /\ out[m] = prefix \o line.extra
                       /\ \A n \in j..m : quoted => At(out[n], 1) = ">"
                       /\ \A n \in (j + 1)..(m - 1) : out[n] \in {<<>>, <<">">>}

\* C13: insert_action_links replaces every action link that starts a line,
\* block-quoted or not, by the anchor with the image and the bold link text
\* (plain text: by the ordinary link); a block-quoted link and the text after it
\* stay in the block quote, the text after a link gets a line of its own, and
\* the lines that hold no line-initial action link are left as they are.
C13_ActionLinksReplaced ==
    (Len(xCalls) >= 1 /\ xCalls[1].fn = "insert_action_links") =>
        \A k \in 1..Len(xPieces) :
            IF xPieces[k].link
            THEN LinkLineReplaced(xPieces[k], SplitLines(xCalls[1].out), xHtml)
            ELSE \E j \in 1..Len(SplitLines(xCalls[1].out)) :
                     SplitLines(xCalls[1].out)[j] = LineText(xPieces[k])

\* a block-quoted action link followed by text, after other text, was replaced
C13_Witness ==
    /\ Len(xCalls) >= 1
    /\ xCalls[1].fn = "insert_action_links"
    /\ xHtml
    /\ Len(xPieces) = 2
    /\ xPieces[2] = LinkLine(<<">", " ">>, <<">", ">">>, <<"u">>, <<" ", "x">>)
    /\ Contains(xCalls[1].out, <<"</b>", "</a>", "\n", ">", "\n", ">", " ", " ", "x">>)

(***************************************************************************)
(* formatters.py: the typography functions.  Characters outside ASCII are  *)
(* atoms named by their code point; the two dashes of                      *)
(* hyphens_surrounded_by_spaces are the en dash and the em dash.           *)
(***************************************************************************)
EnDash == "<U+2013>"
EmDash == "<U+2014>"
ZeroWidthSpace == "<U+200B>"

\* a slip: the pattern without its lookahead (?!\/|\?)
GovukAt_M(s, i) ==
    /\ i + 5 <= Len(s)
    /\ lower(SubSeq(s, i, i + 2)) = <<"g", "o", "v">>
    /\ s[i + 3] = "."
    /\ lower(SubSeq(s, i + 4, i + 5)) = <<"u", "k">>
    /\ At(s, i - 1) \notin {".", "/"}

\* govuk_not_a_link at s[i]: (?<!\.|\/)(GOV)\.(UK)(?!\/|\?), re.IGNORECASE
GovukAt(s, i) ==
    /\ i + 5 <= Len(s)
    /\ lower(SubSeq(s, i, i + 2)) = <<"g", "o", "v">>
    /\ s[i + 3] = "."
    /\ lower(SubSeq(s, i + 4, i + 5)) = <<"u", "k">>
    /\ At(s, i - 1) \notin {".", "/"}
    /\ At(s, i + 6) \notin {"/", "?"}

\* re.sub(govuk_not_a_link, r'\1' + '.\u200B' + r'\2', str(message)), from s[i] on
RECURSIVE SubGovuk(_, _)
SubGovuk(s, i) ==
    IF i > Len(s) THEN <<>>
    ELSE IF GovukAt(s, i)
    THEN SubSeq(s, i, i + 2) \o <<".", ZeroWidthSpace>> \o SubSeq(s, i + 4, i + 5)
             \o SubGovuk(s, i + 6)
    ELSE <<s[i]>> \o SubGovuk(s, i + 1)

unlink_govuk_escaped(message) == SubGovuk(message, 1)

\* whitespace_before_punctuation, [ \t]+([,|\.]): the characters of its class
PunctuationClass == {",", "|", "."}

\* re.sub(whitespace_before_punctuation, lambda match: match.group(1), value),
\* from s[i] on
RECURSIVE SubWhitespaceBeforePunctuation(_, _)
SubWhitespaceBeforePunctuation(s, i) ==
    IF i > Len(s) THEN <<>>
    ELSE LET n == RunLen(s, i, {" ", "\t"})
         IN  IF n = 0 THEN <<s[i]>> \o SubWhitespaceBeforePunctuation(s, i + 1)
             ELSE IF At(s, i + n) \in PunctuationClass
             THEN <<s[i + n]>> \o SubWhitespaceBeforePunctuation(s, i + n + 1)
             ELSE SubSeq(s, i, i + n - 1) \o SubWhitespaceBeforePunctuation(s, i + n)

remove_whitespace_before_punctuation(value) == SubWhitespaceBeforePunctuation(value, 1)

\* hyphens_surrounded_by_spaces, \s+[-|<en dash>|<em dash>]{1,3}\s+: the
\* characters of its class
HyphenClass == {"-", "|", EnDash, EmDash}

\* the length of the match of hyphens_surrounded_by_spaces at s[i], or 0
HyphensMatchLen(s, i) ==
    LET w == RunLen(s, i, Whitespace)
        h == RunLen(s, i + w, HyphenClass)
        t == RunLen(s, i + w + h, Whitespace)
    IN  IF w >= 1 /\ h >= 1 /\ h <= 3 /\ t >= 1 THEN w + h + t ELSE 0

\* re.sub(hyphens_surrounded_by_spaces, ' \u2013 ', value), from s[i] on
RECURSIVE SubHyphens(_, _)
SubHyphens(s, i) ==
    IF i > Len(s) THEN <<>>
    ELSE LET n == HyphensMatchLen(s, i)
         IN  IF n > 0 THEN <<" ", EnDash, " ">> \o SubHyphens(s, i + n)
             ELSE <<s[i]>> \o SubHyphens(s, i + 1)

replace_hyphens_with_en_dashes(value) == SubHyphens(value, 1)

(***************************************************************************)
(* Calls of unlink_govuk_escaped on text of up to MaxGovukPieces pieces.   *)
(***************************************************************************)
MaxGovukPieces == 3

GovukWords ==
    {<<"G", "O", "V", ".", "U", "K">>, <<"g", "o", "v", ".", "u", "k">>,
     <<"G", "o", "v", ".", "u", "k">>}

GovukPieces == GovukWords \cup {<<".">>, <<"/">>, <<"?">>, <<"x">>, <<" ">>}

GovukInit ==
    /\ xPieces \in ContentsOf(GovukPieces, MaxGovukPieces)
    /\ xText = Flatten(xPieces)
    /\ xHtml = FALSE
    /\ xCalls = <<>>
    /\ FieldIdle /\ T2Idle /\ SmsIdle /\ CtorIdle /\ ExtIdle

\* the call unlink_govuk_escaped(message)
UnlinkGovukEscaped ==
    /\ Len(xCalls) < MaxApplications
    /\ xCalls' = Append(xCalls, Called("unlink_govuk_escaped",
                                       Ok(unlink_govuk_escaped(FmtInput))))
    /\ UNCHANGED <<xPieces, xText, xHtml, fieldVars, t2Vars, smsVars, ctorVars, extVars>>

GovukNext == UnlinkGovukEscaped

SpecGovuk == GovukInit /\ [][GovukNext]_vars

\* piece k is GOV.UK in some letter case, not right after '.' or '/' and not
\* right before '/' or '?'
IsBareGovuk(ps, k) ==
    /\ ps[k] \in GovukWords
    /\ k > 1 => ps[k - 1] \notin {<<".">>, <<"/">>}
    /\ k < Len(ps) => ps[k + 1] \notin {<<"/">>, <<"?">>}

\* the text with a zero-width space after the dot of every bare GOV.UK
Unlinked(ps) ==
    Flatten([k \in 1..Len(ps) |->
                IF IsBareGovuk(ps, k)
                THEN SubSeq(ps[k], 1, 4) \o <<ZeroWidthSpace>> \o SubSeq(ps[k], 5, 6)
                ELSE ps[k]])

\* C14: unlink_govuk_escaped puts a zero-width space after the dot of every
\* GOV.UK, in any letter case, that is not right after '.' or '/' and not right
\* before '/' or '?', and changes nothing else; a second application changes
\* nothing.
C14_GovukUnlinked ==
    \A n \in 1..Len(xCalls) :
        xCalls[n].fn = "unlink_govuk_escaped" => xCalls[n].out = Unlinked(xPieces)

\* 'Gov.uk gov.uk/' went through unlink_govuk_escaped twice
C14_Witness ==
    /\ Len(xCalls) = 2
    /\ xCalls[2].fn = "unlink_govuk_escaped"
    /\ xPieces = <<<<"G", "o", "v", ".", "u", "k">>, <<"g", "o", "v", ".", "u", "k">>,
                   <<"/">>>>
    /\ xCalls[2].out = <<"G", "o", "v", ".", ZeroWidthSpace, "u", "k",
                         "g", "o", "v", ".", "u", "k", "/">>

(***************************************************************************)
(* formatters.py and template.py: smart quotes and do_nice_typography.     *)
(***************************************************************************)
OpeningQuote == "<U+201C>"
ClosingQuote == "<U+201D>"

\* smartypants on a straight double quote at s[i], for text without markup:
\* closing before whitespace and after a character other than whitespace, an
\* opening bracket or a hyphen; opening elsewhere
EducateQuote(s, i) ==
    IF At(s, i - 1) \in Whitespace /\ At(s, i + 1) \in WordChars THEN OpeningQuote
    ELSE IF At(s, i + 1) \in Whitespace THEN ClosingQuote
    ELSE IF i > 1 /\ s[i - 1] \notin Whitespace \cup {"[", "{", "(", "-"}
    THEN ClosingQuote
    ELSE OpeningQuote

\* smartypants.smartypants(value, Attr.q | Attr.u)
make_quotes_smart(value) ==
    [i \in 1..Len(value) |-> IF value[i] = "\"" THEN EducateQuote(value, i) ELSE value[i]]

\* an e-mail address around s[i]: the run of non-whitespace atoms that holds
\* s[i], when it holds an '@'
InEmailAddress(s, i) ==
    \E a \in 1..i : \E b \in i..Len(s) :
        /\ \A k \in a..b : s[k] \notin Whitespace
        /\ \E k \in a..b : s[k] = "@"

\* email_with_smart_quotes_regex.sub(remove_smart_quotes, value): the curly
\* single quotes of an e-mail address made straight
remove_smart_quotes_from_email_addresses(value) ==
    [i \in 1..Len(value) |->
        IF value[i] \in {"<U+2018>", "<U+2019>"} /\ InEmailAddress(value, i)
        THEN "'" ELSE value[i]]

\* Take(value).then(...).then(...).then(...).then(...)
do_nice_typography(value) ==
    replace_hyphens_with_en_dashes(
        remove_smart_quotes_from_email_addresses(
            make_quotes_smart(
                remove_whitespace_before_punctuation(value))))

(***************************************************************************)
(* Calls of the typography functions on text of up to MaxTypographyPieces  *)
(* pieces.                                                                 *)
(***************************************************************************)
MaxTypographyPieces == 4

QuotedWord == <<"\"", "a", "\"">>

TypographyPieces ==
    {<<"a">>, <<" ">>, <<"\t">>, <<"\n">>, <<"-">>, <<"-", "-", "-">>, <<EnDash>>,
     <<EmDash>>, <<"|">>, <<",">>, <<".">>, QuotedWord}

TypographyInit ==
    /\ xPieces \in ContentsOf(TypographyPieces, MaxTypographyPieces)
    /\ xText = Flatten(xPieces)
    /\ xHtml = FALSE
    /\ xCalls = <<>>
    /\ FieldIdle /\ T2Idle /\ SmsIdle /\ CtorIdle /\ ExtIdle

\* the call remove_whitespace_before_punctuation(value)
RemoveWhitespaceBeforePunctuation ==
    /\ Len(xCalls) < MaxApplications
    /\ xCalls' = Append(xCalls, Called("remove_whitespace_before_punctuation",
                            Ok(remove_whitespace_before_punctuation(FmtInput))))
    /\ UNCHANGED <<xPieces, xText, xHtml, fieldVars, t2Vars, smsVars, ctorVars, extVars>>

\* the call replace_hyphens_with_en_dashes(value)
ReplaceHyphensWithEnDashes ==
    /\ Len(xCalls) < MaxApplications
    /\ xCalls' = Append(xCalls, Called("replace_hyphens_with_en_dashes",
                            Ok(replace_hyphens_with_en_dashes(FmtInput))))
    /\ UNCHANGED <<xPieces, xText, xHtml, fieldVars, t2Vars, smsVars, ctorVars, extVars>>

\* the call do_nice_typography(value)
DoNiceTypography ==
    /\ Len(xCalls) < MaxApplications
    /\ xCalls' = Append(xCalls, Called("do_nice_typography",
                            Ok(do_nice_typography(FmtInput))))
    /\ UNCHANGED <<xPieces, xText, xHtml, fieldVars, t2Vars, smsVars, ctorVars, extVars>>

TypographyNext ==
    \/ RemoveWhitespaceBeforePunctuation
    \/ ReplaceHyphensWithEnDashes
    \/ DoNiceTypography

SpecTypography == TypographyInit /\ [][TypographyNext]_vars

(***************************************************************************)
(* Claims about the typography functions.                                  *)
(***************************************************************************)
\* the input of call n
InputOf(n) == IF n = 1 THEN xText ELSE xCalls[n - 1].out

HasAtom(s, cls) == \E k \in 1..Len(s) : s[k] \in cls

\* the hyphen-like characters: hyphen, en dash, em dash
DashLike == {"-", EnDash, EmDash}

\* the text from s[i] on, with every run of 1 to 3 hyphen-like characters that
\* has whitespace on both sides replaced, whitespace included, by space, en
\* dash, space
RECURSIVE SpacedDashesReplaced(_, _)
SpacedDashesReplaced(s, i) ==
    IF i > Len(s) THEN <<>>
    ELSE LET w == RunLen(s, i, Whitespace)
             h == RunLen(s, i + w, DashLike)
             t == RunLen(s, i + w + h, Whitespace)
         IN  IF w >= 1 /\ h >= 1 /\ h <= 3 /\ t >= 1
             THEN <<" ", EnDash, " ">> \o SpacedDashesReplaced(s, i + w + h + t)
             ELSE <<s[i]>> \o SpacedDashesReplaced(s, i + 1)

\* C15: replace_hyphens_with_en_dashes returns its argument with every run of
\* 1 to 3 hyphen-like characters (hyphen, en dash, em dash) that has whitespace
\* on both sides replaced by space, en dash, space; a run of 4 or more, a run
\* without whitespace on both sides, and all other text are left as they are.
C15_EnDashes ==
    \A n \in 1..Len(xCalls) :
        xCalls[n].fn = "replace_hyphens_with_en_dashes" =>
            xCalls[n].out = SpacedDashesReplaced(InputOf(n), 1)

\* supplementary to C15: the same, for text without '|'
C15_EnDashesWithoutPipe ==
    \A n \in 1..Len(xCalls) :
        (xCalls[n].fn = "replace_hyphens_with_en_dashes" /\ ~HasAtom(InputOf(n), {"|"})) =>
            xCalls[n].out = SpacedDashesReplaced(InputOf(n), 1)

\* the text from s[i] on, without the runs of spaces and tabs that stand right
\* before a comma or a period
RECURSIVE WithoutWhitespaceBeforeCommaOrPeriod(_, _)
WithoutWhitespaceBeforeCommaOrPeriod(s, i) ==
    IF i > Len(s) THEN <<>>
    ELSE LET n == RunLen(s, i, {" ", "\t"})
         IN  IF n >= 1 /\ At(s, i + n) \in {",", "."}
             THEN WithoutWhitespaceBeforeCommaOrPeriod(s, i + n)
             ELSE <<s[i]>> \o WithoutWhitespaceBeforeCommaOrPeriod(s, i + 1)

\* C16: remove_whitespace_before_punctuation returns its argument without the
\* runs of spaces and tabs that stand right before a comma or a period, and
\* with everything else (whitespace before any other character, newlines) as
\* it was.
C16_WhitespaceBeforePunctuation ==
    \A n \in 1..Len(xCalls) :
        xCalls[n].fn = "remove_whitespace_before_punctuation" =>
            xCalls[n].out = WithoutWhitespaceBeforeCommaOrPeriod(InputOf(n), 1)

\* supplementary to C16: the same, for text without '|'
C16_WithoutPipe ==
    \A n \in 1..Len(xCalls) :
        (xCalls[n].fn = "remove_whitespace_before_punctuation"
             /\ ~HasAtom(InputOf(n), {"|"})) =>
            xCalls[n].out = WithoutWhitespaceBeforeCommaOrPeriod(InputOf(n), 1)

\* the second of two calls of fn in a row returns what the first returned
IdempotentCalls(fn) ==
    \A n \in 2..Len(xCalls) :
        (xCalls[n].fn = fn /\ xCalls[n - 1].fn = fn) => xCalls[n].out = xCalls[n - 1].out

\* C17: do_nice_typography applied to its own output returns it unchanged, and
\* so do remove_whitespace_before_punctuation and replace_hyphens_with_en_dashes
\* applied to theirs.
C17_TypographyIdempotent ==
    /\ IdempotentCalls("do_nice_typography")
    /\ IdempotentCalls("remove_whitespace_before_punctuation")
    /\ IdempotentCalls("replace_hyphens_with_en_dashes")

\* supplementary to C17: the two string-level steps are idempotent
C17_StepsIdempotent ==
    /\ IdempotentCalls("remove_whitespace_before_punctuation")
    /\ IdempotentCalls("replace_hyphens_with_en_dashes")

(***************************************************************************)
(* formatters.py: strip_dvla_markup, on text of up to MaxDvlaPieces pieces. *)
(***************************************************************************)
\* the tags of dvla_markup_tags, without their brackets
DvlaTags ==
    {<<"c", "r">>, <<"h", "1">>, <<"h", "2">>, <<"p">>, <<"n", "o", "r", "m", "a", "l">>,
     <<"o", "p">>, <<"n", "p">>, <<"b", "u", "l">>, <<"t", "a", "b">>}

\* the length of the match of dvla_markup_tags (re.IGNORECASE) at s[i], or 0
DvlaTagLenAt(s, i) ==
    IF At(s, i) # "<" THEN 0
    ELSE LET close == IndexOf(s, i + 1, {">"})
         IN  IF close > 0 /\ lower(SubSeq(s, i + 1, close - 1)) \in DvlaTags
             THEN close - i + 1 ELSE 0

\* re.sub(dvla_markup_tags, '', value), from s[i] on
RECURSIVE SubDvlaTags(_, _)
SubDvlaTags(s, i) ==
    IF i > Len(s) THEN <<>>
    ELSE IF DvlaTagLenAt(s, i) > 0 THEN SubDvlaTags(s, i + DvlaTagLenAt(s, i))
    ELSE <<s[i]>> \o SubDvlaTags(s, i + 1)

strip_dvla_markup(value) == SubDvlaTags(value, 1)

MaxDvlaPieces == 3

\* DVLA tags in both letter cases
DvlaTagPieces == {<<"<", "c", "r", ">">>, <<"<", "P", ">">>, <<"<", "h", "1", ">">>}

\* another tag, as in 'some <words>', and plain text
OtherTagPieces == {<<"<", "w", ">">>, <<"x">>}

\* the two halves of a DVLA tag, <c and r>
HalfTagPieces == {<<"<", "c">>, <<"r", ">">>}

DvlaInit ==
    /\ xPieces \in ContentsOf(DvlaTagPieces \cup OtherTagPieces \cup HalfTagPieces,
                              MaxDvlaPieces)
    /\ xText = Flatten(xPieces)
    /\ xHtml = FALSE
    /\ xCalls = <<>>
    /\ FieldIdle /\ T2Idle /\ SmsIdle /\ CtorIdle /\ ExtIdle

\* the call strip_dvla_markup(value)
StripDvlaMarkup ==
    /\ Len(xCalls) < MaxApplications
    /\ xCalls' = Append(xCalls, Called("strip_dvla_markup",
                                       Ok(strip_dvla_markup(FmtInput))))
    /\ UNCHANGED <<xPieces, xText, xHtml, fieldVars, t2Vars, smsVars, ctorVars, extVars>>

DvlaNext == StripDvlaMarkup

SpecDvla == DvlaInit /\ [][DvlaNext]_vars

\* s holds a tag of the DVLA vocabulary, in some letter case
HoldsDvlaTag(s) ==
    \E tag \in DvlaTags : Contains(lower(s), <<"<">> \o tag \o <<">">>)

\* the pieces that are no DVLA tag, in their order
RECURSIVE WithoutTagPieces(_)
WithoutTagPieces(ps) ==
    IF ps = <<>> THEN <<>>
    ELSE (IF Head(ps) \in DvlaTagPieces THEN <<>> ELSE Head(ps))
             \o WithoutTagPieces(Tail(ps))

\* C18: whatever its argument, the output of strip_dvla_markup holds no tag of
\* the DVLA vocabulary, in any letter case; an argument that holds none is
\* returned as it is.
C18_NoDvlaTagLeft ==
    \A n \in 1..Len(xCalls) :
        xCalls[n].fn = "strip_dvla_markup" =>
            /\ ~HoldsDvlaTag(xCalls[n].out)
            /\ ~HoldsDvlaTag(InputOf(n)) => xCalls[n].out = InputOf(n)

\* supplementary to C18: text written from whole tags and other text comes
\* back without its DVLA tags, everything else in place
C18_WholeTagsStripped ==
    (Len(xCalls) >= 1 /\ \A k \in 1..Len(xPieces) : xPieces[k] \notin HalfTagPieces) =>
        /\ xCalls[1].out = WithoutTagPieces(xPieces)
        /\ ~HoldsDvlaTag(xCalls[1].out)

(***************************************************************************)
(* More claims about the masking protocol of Field.                        *)
(***************************************************************************)
HoldsToken(s) == \E i \in 1..Len(s) : s[i] \in {VarToken, UrlToken}

\* C19: with the passthrough sanitizer, Field._raw_formatted returns exactly the
\* content it was built with, whatever placeholders and markdown links the
\* content holds (none, some, a placeholder in the URL of a link), and none of
\* the tokens VARIABLE_PLACEHOLDER:: and URL_PLACEHOLDER:: is in what it returns.
C19_MaskingRoundTrip ==
    (fOp = "_raw_formatted" /\ fHtml = "passthrough" /\ ~HoldsToken(Flatten(fPieces))) =>
        /\ fOut = Ok(Flatten(fPieces))
        /\ ~HoldsToken(fOut.out)

\* a placeholder or a markdown link directly followed by a digit
DigitAfterMasked(ps) ==
    \E k \in 1..(Len(ps) - 1) :
        /\ ps[k + 1] = PieceDigit
        /\ HasPlaceholder(ps[k]) \/ ps[k] \in {PieceLink, PieceLinkA}

\* supplementary to C19: outside preview mode Field.formatted, which restores
\* the placeholders once more, does return the content, unless a digit follows
\* a placeholder or a link
C19_FormattedRoundTrip ==
    (/\ fOp = "formatted" /\ fHtml = "passthrough" /\ ~fPreview
     /\ ~HoldsToken(Flatten(fPieces)) /\ ~DigitAfterMasked(fPieces)) =>
        fOut = Ok(Flatten(fPieces))

(***************************************************************************)
(* field.py: the accessors of a Placeholder, on bodies of up to            *)
(* MaxBodyPieces pieces.  xText is the argument of Placeholder(body).      *)
(***************************************************************************)
MaxBodyPieces == 4

BodyPieces == {<<"a">>, <<" ">>, <<"?">>, QQ, <<"(">>, <<")">>, <<"y">>}

\* the values handed to get_conditional_body
BodyValues == {NoneV, FalseV, StrV(<<>>), StrV(FalseStr), StrV(<<"v">>), ListV(<<>>)}

PlaceholderInit ==
    /\ xPieces \in ContentsOf(BodyPieces, MaxBodyPieces)
    /\ xText = Flatten(xPieces)
    /\ xHtml = FALSE
    /\ xCalls = <<>>
    /\ FieldIdle /\ T2Idle /\ SmsIdle /\ CtorIdle /\ ExtIdle

\* reading Placeholder(body).conditional_text
ReadConditionalText ==
    /\ Len(xCalls) < MaxApplications
    /\ xCalls' = Append(xCalls, Called("conditional_text",
                                       conditional_text(PlaceholderBody(xText))))
    /\ UNCHANGED <<xPieces, xText, xHtml, fieldVars, t2Vars, smsVars, ctorVars, extVars>>

\* the call Placeholder(body).get_conditional_body(placeholder_value)
GetConditionalBody ==
    /\ Len(xCalls) < MaxApplications
    /\ \E v \in BodyValues :
           xCalls' = Append(xCalls, Called("get_conditional_body",
                                get_conditional_body(PlaceholderBody(xText), v)))
    /\ UNCHANGED <<xPieces, xText, xHtml, fieldVars, t2Vars, smsVars, ctorVars, extVars>>

PlaceholderNext == ReadConditionalText \/ GetConditionalBody

SpecPlaceholder == PlaceholderInit /\ [][PlaceholderNext]_vars

\* the body was written with '??': as one piece, or as two '?' in a row
WrittenWithQQ(ps) ==
    \E k \in 1..Len(ps) :
        \/ ps[k] = QQ
        \/ ps[k] = <<"?">> /\ k < Len(ps) /\ ps[k + 1] \in {<<"?">>, QQ}

\* C20: on a Placeholder whose body holds no '??', conditional_text and
\* get_conditional_body(value), for every value, raise ValueError; on one whose
\* body holds '??' neither raises.
C20_ConditionalAccessorsFailFast ==
    \A n \in 1..Len(xCalls) :
        xCalls[n].fn \in {"conditional_text", "get_conditional_body"} =>
            xCalls[n].exc = IF WrittenWithQQ(xPieces) THEN "none" ELSE "ValueError"

\* both accessors were used on Placeholder('((a?y))') and raised
C20_Witness ==
    /\ xPieces = <<<<"(">>, <<"a">>, <<"?">>, <<"y">>>>
    /\ Len(xCalls) = 2
    /\ xCalls[1].fn = "conditional_text" /\ xCalls[1].exc = "ValueError"
    /\ xCalls[2].fn = "get_conditional_body" /\ xCalls[2].exc = "ValueError"

(***************************************************************************)
(* Claims about the buffers of the masking protocol.                       *)
(***************************************************************************)
\* C21: at the start of every read of _raw_formatted or formatted on a Field
\* instance its buffers _placeholders and _urls are empty: what an earlier read
\* appended is not there for a later one, and the buffers do not grow from read
\* to read.
C21_BuffersEmptyAtCall ==
    [][fCalls' = fCalls + 1 => (fPlaceholders = <<>> /\ fUrls = <<>>)]_vars

\* supplementary to C21: the buffers only grow, __init__ being the one place
\* that empties them
C21_BuffersOnlyGrow ==
    [][Len(fPlaceholders') >= Len(fPlaceholders) /\ Len(fUrls') >= Len(fUrls)]_vars

(***************************************************************************)
(* Two threads reading _raw_formatted, step by step.  replace_placeholder  *)
(* and replace_url are two statements each: the append to the buffer, and  *)
(* the read of the buffer's length that numbers the token.  Another thread *)
(* can run between the two.                                                *)
(***************************************************************************)
Threads == {1, 2}

MaxThreadPieces == 2

ThreadPieces == {PieceX, PieceA, T2PieceB, PieceLink}

\* Field(content): html defaults to 'strip'
ThreadHtml == "strip"

\* the Field instance, self, that thread t reads
Inst_M(t) == 1
Inst(t) == IF kShared THEN 1 ELSE t

NotCalled ==
    [pc |-> "new", text |-> <<>>, pos |-> 1, at |-> 0, n |-> 0, out |-> <<>>,
     toks |-> <<>>]

\* the first match of the placeholder pattern at or after text[pos], 0 if none
FirstPlaceholderAt(text, pos) ==
    LET found == {i \in pos..Len(text) : PlaceholderMatchLen(text, i) > 0}
    IN  IF found = {} THEN 0 ELSE CHOOSE i \in found : \A j \in found : i <= j

\* the first match of url_pattern at or after text[pos], 0 if none
FirstUrlAt(text, pos) ==
    LET found == {i \in pos..Len(text) : UrlMatchLen(text, i) > 0}
    IN  IF found = {} THEN 0 ELSE CHOOSE i \in found : \A j \in found : i <= j

ThreadsInit ==
    /\ kPieces \in ContentsOf(ThreadPieces, MaxThreadPieces)
    /\ kShared \in BOOLEAN
    /\ kBuf = [i \in Threads |-> [placeholders |-> <<>>, urls |-> <<>>]]
    /\ kThread = [t \in Threads |-> NotCalled]
    /\ FieldIdle /\ T2Idle /\ SmsIdle /\ CtorIdle /\ FmtIdle /\ BlockIdle /\ GlobIdle

ThreadFrame ==
    UNCHANGED <<kPieces, kShared, fieldVars, t2Vars, smsVars, ctorVars, fmtVars, blockVars,
                globVars>>

\* formatted_text = format_without_placeholders(self.content): self.sanitizer(text)
CallRawFormatted(t) ==
    /\ kThread[t].pc = "new"
    /\ kThread' = [kThread EXCEPT ![t] =
           [@ EXCEPT !.pc = "mask",
                     !.text = Sanitize(ThreadHtml, Flatten(kPieces)),
                     !.pos = 1, !.out = <<>>]]
    /\ UNCHANGED kBuf
    /\ ThreadFrame

\* replace_placeholder, first statement: self._placeholders.append(match.group(0))
AppendPlaceholder(t) ==
    /\ kThread[t].pc = "mask"
    /\ \E i \in {FirstPlaceholderAt(kThread[t].text, kThread[t].pos)} :
        /\ i > 0
        /\ \E n \in {PlaceholderMatchLen(kThread[t].text, i)} :
            /\ kBuf' = [kBuf EXCEPT ![Inst(t)].placeholders =
                   Append(@, SubSeq(kThread[t].text, i, i + n - 1))]
            /\ kThread' = [kThread EXCEPT ![t] =
                   [@ EXCEPT !.pc = "token", !.at = i, !.n = n]]
    /\ ThreadFrame

\* replace_placeholder, second statement:
\* return f'VARIABLE_PLACEHOLDER::{len(self._placeholders)}'
BuildPlaceholderToken(t) ==
    /\ kThread[t].pc = "token"
    /\ \E th \in {kThread[t]}, index \in {Len(kBuf[Inst(t)].placeholders)} :
        kThread' = [kThread EXCEPT ![t] =
            [th EXCEPT !.pc = "mask",
                       !.out = th.out \o SubSeq(th.text, th.pos, th.at - 1)
                                  \o <<VarToken>> \o IntToStr(index),
                       !.pos = th.at + th.n,
                       !.toks = Append(th.toks,
                           [token |-> VarToken, index |-> index,
                            text |-> SubSeq(th.text, th.at, th.at + th.n - 1)])]]
    /\ UNCHANGED kBuf
    /\ ThreadFrame

\* re.sub(self.placeholder_pattern, ...) finds no further match and returns
EndMaskPlaceholders(t) ==
    /\ kThread[t].pc = "mask"
    /\ FirstPlaceholderAt(kThread[t].text, kThread[t].pos) = 0
    /\ \E th \in {kThread[t]} :
        kThread' = [kThread EXCEPT ![t] =
            [th EXCEPT !.pc = "mask_url",
                       !.text = th.out \o SubSeq(th.text, th.pos, Len(th.text)),
                       !.pos = 1, !.out = <<>>]]
    /\ UNCHANGED kBuf
    /\ ThreadFrame

\* replace_url, first statements: url = match.group(0); self._urls.append(url)
AppendUrl(t) ==
    /\ kThread[t].pc = "mask_url"
    /\ \E i \in {FirstUrlAt(kThread[t].text, kThread[t].pos)} :
        /\ i > 0
        /\ \E n \in {UrlMatchLen(kThread[t].text, i)} :
            /\ kBuf' = [kBuf EXCEPT ![Inst(t)].urls =
                   Append(@, SubSeq(kThread[t].text, i, i + n - 1))]
            /\ kThread' = [kThread EXCEPT ![t] =
                   [@ EXCEPT !.pc = "url_token", !.at = i, !.n = n]]
    /\ ThreadFrame

\* replace_url, last statement: return f'URL_PLACEHOLDER::{len(self._urls)}'
BuildUrlToken(t) ==
    /\ kThread[t].pc = "url_token"
    /\ \E th \in {kThread[t]}, index \in {Len(kBuf[Inst(t)].urls)} :
        kThread' = [kThread EXCEPT ![t] =
            [th EXCEPT !.pc = "mask_url",
                       !.out = th.out \o SubSeq(th.text, th.pos, th.at - 1)
                                  \o <<UrlToken>> \o IntToStr(index),
                       !.pos = th.at + th.n,
                       !.toks = Append(th.toks,
                           [token |-> UrlToken, index |-> index,
                            text |-> SubSeq(th.text, th.at, th.at + th.n - 1)])]]
    /\ UNCHANGED kBuf
    /\ ThreadFrame

\* re.sub(url_pattern, ...) finds no further match and returns
EndMaskUrls(t) ==
    /\ kThread[t].pc = "mask_url"
    /\ FirstUrlAt(kThread[t].text, kThread[t].pos) = 0
    /\ \E th \in {kThread[t]} :
        kThread' = [kThread EXCEPT ![t] =
            [th EXCEPT !.pc = "restore",
                       !.text = th.out \o SubSeq(th.text, th.pos, Len(th.text)),
                       !.pos = 1, !.out = <<>>]]
    /\ UNCHANGED kBuf
    /\ ThreadFrame

\* re.sub(r'VARIABLE_PLACEHOLDER::(\d+)', restore_placeholder, formatted_text)
RestorePlaceholders(t) ==
    /\ kThread[t].pc = "restore"
    /\ kThread' = [kThread EXCEPT ![t] =
           [@ EXCEPT !.pc = "restore_url",
                     !.text = RestoreTokens(kThread[t].text, 1, VarToken,
                                            kBuf[Inst(t)].placeholders)]]
    /\ UNCHANGED kBuf
    /\ ThreadFrame

\* re.sub(r'URL_PLACEHOLDER::(\d+)', restore_url, formatted_text); return
RestoreUrls(t) ==
    /\ kThread[t].pc = "restore_url"
    /\ kThread' = [kThread EXCEPT ![t] =
           [@ EXCEPT !.pc = "returned",
                     !.out = RestoreTokens(kThread[t].text, 1, UrlToken,
                                           kBuf[Inst(t)].urls)]]
    /\ UNCHANGED kBuf
    /\ ThreadFrame

ThreadsNext ==
    \E t \in Threads :
        \/ CallRawFormatted(t)
        \/ AppendPlaceholder(t)
        \/ BuildPlaceholderToken(t)
        \/ EndMaskPlaceholders(t)
        \/ AppendUrl(t)
        \/ BuildUrlToken(t)
        \/ EndMaskUrls(t)
        \/ RestorePlaceholders(t)
        \/ RestoreUrls(t)

\* two threads, each reading _raw_formatted once, on one Field or on two
SpecThreads == ThreadsInit /\ [][ThreadsNext]_vars

\* what the buffer of thread t's instance gives back for a token the thread built
RestoredText(t, tok) ==
    IF tok.token = VarToken
    THEN restore_placeholder(kBuf[Inst(t)].placeholders, tok.index)
    ELSE restore_url(kBuf[Inst(t)].urls, tok.index)

\* a token thread t built stands for text other than the text it replaced
Misrestored(t) ==
    \E k \in 1..Len(kThread[t].toks) :
        RestoredText(t, kThread[t].toks[k]) # kThread[t].toks[k].text

\* C22: two _raw_formatted calls on distinct Field instances never interfere,
\* whatever the interleaving of their steps (append to the buffer, read the
\* buffer's length to number the token, restore by index): every token is
\* restored to the text it replaced and each call returns the sanitized content.
\* On one shared instance an interleaving restores a token to other text: the
\* state of C22_Witness.
C22_DistinctInstancesDoNotInterfere ==
    ~kShared =>
        \A t \in DOMAIN kThread :
            /\ ~Misrestored(t)
            /\ kThread[t].pc = "returned"
                   => kThread[t].out = Sanitize(ThreadHtml, Flatten(kPieces))

\* one instance, both calls returned, and one of them returned a placeholder
\* restored to the text of another placeholder
C22_Witness ==
    /\ kShared
    /\ \A t \in DOMAIN kThread : kThread[t].pc = "returned"
    /\ \E t \in DOMAIN kThread :
        /\ Misrestored(t)
        /\ kThread[t].out # Sanitize(ThreadHtml, Flatten(kPieces))

(***************************************************************************)
(* The restore callbacks of _raw_formatted and formatted, called on a      *)
(* match of VARIABLE_PLACEHOLDER::(\d+) or URL_PLACEHOLDER::(\d+) while    *)
(* the instance holds buffers of up to MaxBuffer entries.                  *)
(***************************************************************************)
MaxBuffer == 2

MaxDigitPieces == 2

\* sys.get_int_max_str_digits(): int() of a longer digit string raises ValueError
IntMaxStrDigits == 4300

\* the atom that stands for '0' * 4300
ZeroRun == "<0 x 4300>"

AtomDigits(a) == IF a = ZeroRun THEN IntMaxStrDigits ELSE 1

RECURSIVE DigitCount(_)
DigitCount(s) == IF s = <<>> THEN 0 ELSE AtomDigits(Head(s)) + DigitCount(Tail(s))

\* int(match.group(1)): [exc, out].  A string that int() accepts holds a ZeroRun
\* only as the whole of it, and its value is then 0.
int(s) ==
    IF DigitCount(s) > IntMaxStrDigits THEN Raise("ValueError")
    ELSE Ok(StrToInt(SelectSeq(s, LAMBDA a : a # ZeroRun)))

\* restore_placeholder(match) with match.group(1) = digits: [exc, out]
restore_placeholder_match(buf, digits) ==
    LET index == int(digits)
    IN  IF index.exc # "none" THEN Raise(index.exc)
        ELSE Ok(restore_placeholder(buf, index.out))

\* restore_url(match) with match.group(1) = digits: [exc, out]
restore_url_match(buf, digits) ==
    LET index == int(digits)
    IN  IF index.exc # "none" THEN Raise(index.exc)
        ELSE Ok(restore_url(buf, index.out))

DigitPieces == {<<"0">>, <<"1">>, <<"2">>, <<"3">>, <<ZeroRun>>}

PlaceholderEntries == {PieceA, PieceCondA}

UrlEntries == {PieceLink, PieceLinkA}

RestoreInit ==
    /\ fPlaceholders \in ContentsOf(PlaceholderEntries, MaxBuffer)
    /\ fUrls \in ContentsOf(UrlEntries, MaxBuffer)
    /\ xPieces \in ContentsOf(DigitPieces, MaxDigitPieces) \ {<<>>}
    /\ xText = Flatten(xPieces)
    /\ xHtml = FALSE
    /\ xCalls = <<>>
    /\ fPieces = <<>> /\ fValues = <<>> /\ fHtml = "strip" /\ fMarkdownLists = FALSE
    /\ fRedact = FALSE /\ fPreview = FALSE /\ fWithBrackets = TRUE
    /\ fCalls = 0 /\ fOp = "new" /\ fOut = Ok(<<>>)
    /\ T2Idle /\ SmsIdle /\ CtorIdle /\ ExtIdle

RestorePlaceholder ==
    /\ xCalls = <<>>
    /\ xCalls' = <<Called("restore_placeholder",
                          restore_placeholder_match(fPlaceholders, xText))>>
    /\ UNCHANGED <<xPieces, xText, xHtml, fieldVars, t2Vars, smsVars, ctorVars, extVars>>

RestoreUrl ==
    /\ xCalls = <<>>
    /\ xCalls' = <<Called("restore_url", restore_url_match(fUrls, xText))>>
    /\ UNCHANGED <<xPieces, xText, xHtml, fieldVars, t2Vars, smsVars, ctorVars, extVars>>

RestoreNext == RestorePlaceholder \/ RestoreUrl

\* the restore callbacks over buffers and digit strings of every kind
SpecRestore == RestoreInit /\ [][RestoreNext]_vars

\* the digit string is longer than int() converts
LongerThanIntConverts ==
    \E k \in 1..Len(xPieces) : xPieces[k] = <<ZeroRun>> /\ Len(xPieces) > 1

\* the number the digit string denotes
TokenIndex == StrToInt(SelectSeq(xText, LAMBDA a : a # ZeroRun))

\* the text the callback is to emit for the token
RestoredOrFallback(fn) ==
    IF fn = "restore_placeholder"
    THEN IF TokenIndex \in 1..Len(fPlaceholders) THEN fPlaceholders[TokenIndex]
         ELSE <<"(", "(", VarToken>> \o IntToStr(TokenIndex) \o <<")", ")">>
    ELSE IF TokenIndex \in 1..Len(fUrls) THEN fUrls[TokenIndex]
         ELSE <<"[", "URL_RESTORED", "]">>

\* C23: restoring a masking token never raises: for an index outside
\* 1..len(buffer), 0 included, the callback emits the fallback text
\* ((VARIABLE_PLACEHOLDER::n)) or [URL_RESTORED], and for an index inside the
\* range it emits buffer entry n.
C23_RestorationNeverRaises ==
    \A k \in 1..Len(xCalls) :
        xCalls[k].fn \in {"restore_placeholder", "restore_url"} =>
            /\ xCalls[k].exc = "none"
            /\ xCalls[k].out = RestoredOrFallback(xCalls[k].fn)

\* supplementary to C23: for a digit string that int() converts the callbacks
\* return, with buffer entry n inside the range and the fallback outside it
C23_RestoredWhenIntConverts ==
    \A k \in 1..Len(xCalls) :
        (xCalls[k].fn \in {"restore_placeholder", "restore_url"}
         /\ ~LongerThanIntConverts) =>
            /\ xCalls[k].exc = "none"
            /\ xCalls[k].out = RestoredOrFallback(xCalls[k].fn)

\* supplementary to C23: a digit string of more than 4300 digits makes the
\* callback raise ValueError
C23_RaisesOnLongIndex ==
    \A k \in 1..Len(xCalls) :
        (xCalls[k].fn \in {"restore_placeholder", "restore_url"}
         /\ LongerThanIntConverts) => xCalls[k].exc = "ValueError"

(***************************************************************************)
(* formatters2.py: NotifyBlockParser.  A BlockState is [src, cursor,       *)
(* tokens, depth]; positions are offsets into src as Python counts them,   *)
(* from 0, and an Optional[int] is <<>> for None or <<pos>>.               *)
(***************************************************************************)
MaxDepth == 6

\* BlockParser.__init__(..., max_nested_level=6), taken by super().__init__()
MaxNestedLevel == 6

\* the list bullet of Notify's markdown
Bullet == "<U+2022>"

\* src[p], p counted from 0
Ch(src, p) == At(src, p + 1)

\* src[a:b]
Slice(src, a, b) == SubSeq(src, a + 1, b)

NoPos == <<>>

\* if end_pos:
TruthyPos(end_pos) == end_pos # <<>> /\ end_pos[1] # 0

BlockState(src, cursor, tokens, depth) ==
    [src |-> src, cursor |-> cursor, tokens |-> tokens, depth |-> depth]

\* BlockState.find_line_end: the offset after the next "\n", or cursor_max
find_line_end_M(state) ==
    LET n == IndexOf(state.src, state.cursor, {"\n"})
    IN  IF n = 0 THEN Len(state.src) ELSE n
find_line_end(state) ==
    LET n == IndexOf(state.src, state.cursor + 1, {"\n"})
    IN  IF n = 0 THEN Len(state.src) ELSE n

Paragraph(text) == [type |-> "paragraph", text |-> text]

\* BlockState.append_paragraph: [pos, tokens]
append_paragraph(state) ==
    LET n == Len(state.tokens)
    IN  IF n > 0 /\ state.tokens[n].type = "paragraph"
        THEN LET pos == find_line_end(state)
             IN  [pos |-> <<pos>>,
                  tokens |-> [state.tokens EXCEPT ![n] =
                      Paragraph(@.text \o Slice(state.src, state.cursor, pos))]]
        ELSE [pos |-> NoPos, tokens |-> state.tokens]

\* [\*\+<U+2022>-]
BulletClass == {"*", "+", Bullet, "-"}

NoMatch == [ok |-> FALSE]

\* NOTIFY_LIST_PATTERN matched at src[p], the start of a line:
\* [ok, list_1, list_2, list_3, end], end being m.end()
ListMatch(src, p) ==
    LET sp == RunLen(src, p + 1, {" "})
        j == p + sp
        d == RunLen(src, j + 1, Digits)
        k == IF Ch(src, j) \in BulletClass THEN j + 1
             ELSE IF d >= 1 /\ d <= 9 /\ Ch(src, j + d) \in {".", ")"} THEN j + d + 1
             ELSE 0
        e == EndOfLine(src, k + 1) - 1
        ws == RunLen(src, k + 1, {" ", "\t"})
    IN  IF sp <= 3 /\ k > 0 /\ (k + ws = e \/ (ws >= 1 /\ e - k >= 2))
        THEN [ok |-> TRUE, list_1 |-> Slice(src, p, j), list_2 |-> Slice(src, j, k),
              list_3 |-> Slice(src, k, e), end |-> e]
        ELSE NoMatch

\* str.strip() leaves nothing
IsBlank(text) == \A k \in 1..Len(text) : text[k] \in {" ", "\t", "\n"}

\* BlockParser.DEFAULT_RULES, which list_rules defaults to
DefaultRules ==
    {"fenced_code", "indent_code", "axt_heading", "setex_heading", "thematic_break",
     "block_quote", "list", "ref_link", "raw_html", "blank_line"}

\* the rules parse_list hands to _parse_list_item
ListRulesAt_M(depth) == IF depth > MaxNestedLevel - 1 THEN DefaultRules \ {"list"} ELSE DefaultRules
ListRulesAt(depth) == IF depth >= MaxNestedLevel - 1 THEN DefaultRules \ {"list"} ELSE DefaultRules

\* the attrs of the list token
ListAttrs(depth, ordered, marker) ==
    IF ordered /\ StrToInt(SubSeq(marker, 1, Len(marker) - 1)) # 1
    THEN [depth |-> depth, ordered |-> ordered,
          start |-> StrToInt(SubSeq(marker, 1, Len(marker) - 1))]
    ELSE [depth |-> depth, ordered |-> ordered]

\* _compile_continue_width: the text of the item without the spaces before it,
\* and a newline; nothing for an item without text
ItemText(text) ==
    LET sp == RunLen(text, 1, {" "})
    IN  IF IsBlank(text) THEN <<>>
        ELSE SubSeq(text, (IF sp >= 5 THEN 1 ELSE sp) + 1, Len(text)) \o <<"\n">>

\* NotifyBlockParser.parse_list(m, state) for a list that is the last line of
\* state.src, m being the match of the list pattern at state.cursor:
\* [end_pos, cursor, tokens].  _parse_list_item then runs once: the loop over
\* the lines after the item does not run and the text of the item is parsed
\* as a child state, one level deeper, with the rules handed over.
RECURSIVE parse_list(_, _)
parse_list(m, state) ==
    LET text == m.list_3
        marker == m.list_2
        ordered == Len(marker) > 1
        depth == state.depth
        interrupted == append_paragraph(state)
        start == IF ordered THEN StrToInt(SubSeq(marker, 1, Len(marker) - 1)) ELSE 1
        rules == ListRulesAt(depth)
        item == ItemText(text)
        m2 == ListMatch(item, 0)
        children ==
            IF item = <<>> THEN <<>>
            ELSE IF "list" \in rules /\ m2.ok
            THEN parse_list(m2, BlockState(item, 0, <<>>, depth + 1)).tokens
            ELSE <<Paragraph(SubSeq(item, 1, Len(item) - 1))>>
        token == [type |-> "list",
                  children |-> <<[type |-> "list_item", children |-> children]>>,
                  bullet |-> marker[Len(marker)],
                  attrs |-> ListAttrs(depth, ordered, marker)]
    IN  IF IsBlank(text) /\ TruthyPos(interrupted.pos)
        THEN [end_pos |-> interrupted.pos[1], cursor |-> state.cursor,
              tokens |-> interrupted.tokens]
        ELSE IF ordered /\ start # 1 /\ TruthyPos(interrupted.pos)
        THEN [end_pos |-> interrupted.pos[1], cursor |-> state.cursor,
              tokens |-> interrupted.tokens]
        ELSE [end_pos |-> m.end + 1, cursor |-> m.end + 1,
              tokens |-> Append(state.tokens, token)]

(* parse_list on a source whose last line is a list line *)
NotInCall ==
    [fn |-> "none", pc |-> "new", text |-> <<>>, end_pos |-> NoPos,
     prev_blank_line |-> FALSE, require_marker |-> FALSE]

\* a line of the source: what kind of line it is, and the parts it is written from
Line(kind, marker, text) == [kind |-> kind, marker |-> marker, text |-> text]

BlockLineText(line) == line.marker \o line.text \o <<"\n">>

RECURSIVE BlockSrc(_)
BlockSrc(lines) ==
    IF lines = <<>> THEN <<>> ELSE BlockLineText(Head(lines)) \o BlockSrc(Tail(lines))

\* the line of a paragraph that is open when the list line is reached
ParagraphLine == Line("text", <<>>, <<"p">>)

\* list markers, each with what it is: ordered or not, and its number
ListMarkers ==
    {[s |-> <<"-">>, ordered |-> FALSE, number |-> 0],
     [s |-> <<"*">>, ordered |-> FALSE, number |-> 0],
     [s |-> <<"+">>, ordered |-> FALSE, number |-> 0],
     [s |-> <<Bullet>>, ordered |-> FALSE, number |-> 0],
     [s |-> <<"1", ".">>, ordered |-> TRUE, number |-> 1],
     [s |-> <<"1", ")">>, ordered |-> TRUE, number |-> 1],
     [s |-> <<"0", "1", ".">>, ordered |-> TRUE, number |-> 1],
     [s |-> <<"2", ".">>, ordered |-> TRUE, number |-> 2],
     [s |-> <<"1", "0", ")">>, ordered |-> TRUE, number |-> 10],
     [s |-> <<"0", ".">>, ordered |-> TRUE, number |-> 0]}

\* item texts, each with what it is: empty or not, and a list line itself or not
ItemTexts ==
    {[s |-> <<>>, empty |-> TRUE, nested |-> FALSE],
     [s |-> <<" ">>, empty |-> TRUE, nested |-> FALSE],
     [s |-> <<" ", "x">>, empty |-> FALSE, nested |-> FALSE],
     [s |-> <<" ", "-", " ", "x">>, empty |-> FALSE, nested |-> TRUE],
     [s |-> <<" ", Bullet, " ", "x">>, empty |-> FALSE, nested |-> TRUE],
     [s |-> <<" ", "2", ".", " ", "x">>, empty |-> FALSE, nested |-> TRUE]}

ListLine(marker, text) == [kind |-> "list", marker |-> marker.s, text |-> text.s,
                           is |-> marker, item |-> text]

ListInit ==
    /\ \E open \in BOOLEAN, marker \in ListMarkers, text \in ItemTexts, depth \in 0..MaxDepth :
        /\ bPieces = (IF open THEN <<ParagraphLine>> ELSE <<>>) \o <<ListLine(marker, text)>>
        /\ bState = BlockState(BlockSrc(bPieces),
                               IF open THEN Len(BlockLineText(ParagraphLine)) ELSE 0,
                               IF open THEN <<Paragraph(BlockLineText(ParagraphLine))>>
                               ELSE <<>>,
                               depth)
    /\ bCall = NotInCall
    /\ FieldIdle /\ T2Idle /\ SmsIdle /\ CtorIdle /\ FmtIdle /\ ConcIdle /\ GlobIdle

BlockFrame ==
    UNCHANGED <<bPieces, fieldVars, t2Vars, smsVars, ctorVars, fmtVars, concVars, globVars>>

ParseList ==
    /\ bCall.pc = "new"
    /\ \E m \in {ListMatch(bState.src, bState.cursor)} :
        /\ m.ok
        /\ \E r \in {parse_list(m, bState)} :
            /\ bState' = [bState EXCEPT !.cursor = r.cursor, !.tokens = r.tokens]
            /\ bCall' = [bCall EXCEPT !.fn = "parse_list", !.pc = "returned",
                                      !.end_pos = <<r.end_pos>>]
    /\ BlockFrame

ListNext == ParseList

\* parse_list on list lines of every kind, after a paragraph or not, at every depth
SpecList == ListInit /\ [][ListNext]_vars

TheListLine == bPieces[Len(bPieces)]

ParagraphOpen == bPieces[1].kind = "text"

TokensBefore == IF ParagraphOpen THEN <<Paragraph(BlockLineText(ParagraphLine))>> ELSE <<>>

\* the line would interrupt the paragraph: its item is empty, or it is ordered
\* and its number is not 1
CannotInterrupt ==
    TheListLine.item.empty \/ (TheListLine.is.ordered /\ TheListLine.is.number # 1)

RECURSIVE HoldsListToken(_)
HoldsListToken(tokens) ==
    \E k \in 1..Len(tokens) :
        \/ tokens[k].type = "list"
        \/ (tokens[k].type = "list_item" /\ HoldsListToken(tokens[k].children))

\* C25: parse_list does not let a list interrupt a paragraph: while a paragraph
\* is open, a marker line with an empty item, or an ordered marker whose number
\* is not 1, is appended to the paragraph and no list token is produced.
\* Otherwise exactly one list token is produced, ordered iff the marker is a
\* number followed by "." or ")", with attrs.start only when the number is not
\* 1, and holding a nested list only below depth max_nested_level - 1.
C25_ListDoesNotInterruptParagraph ==
    (bCall.fn = "parse_list" /\ bCall.pc = "returned") =>
        IF ParagraphOpen /\ CannotInterrupt
        THEN /\ bState.tokens = <<Paragraph(BlockLineText(ParagraphLine)
                                            \o BlockLineText(TheListLine))>>
             /\ bCall.end_pos = <<Len(bState.src)>>
        ELSE /\ Len(bState.tokens) = Len(TokensBefore) + 1
             /\ SubSeq(bState.tokens, 1, Len(TokensBefore)) = TokensBefore
             /\ \E token \in {bState.tokens[Len(bState.tokens)]} :
                 /\ token.type = "list"
                 /\ token.attrs.ordered = TheListLine.is.ordered
                 /\ token.attrs.depth = bState.depth
                 /\ ("start" \in DOMAIN token.attrs)
                        = (TheListLine.is.ordered /\ TheListLine.is.number # 1)
                 /\ "start" \in DOMAIN token.attrs
                        => token.attrs.start = TheListLine.is.number
                 /\ Len(token.children) = 1
                 /\ HoldsListToken(token.children[1].children)
                        = (TheListLine.item.nested /\ bState.depth < MaxNestedLevel - 1)

\* a list line after an open paragraph that cannot interrupt it, and one that can
C25_Witness ==
    /\ bCall.fn = "parse_list" /\ bCall.pc = "returned"
    /\ ParagraphOpen /\ CannotInterrupt
    /\ TheListLine.is.ordered

\* supplementary to C25: a nested list line at depth max_nested_level - 1 is
\* parsed as a paragraph of the item
C25_NotNestedAtMaxDepth ==
    (bCall.fn = "parse_list" /\ bCall.pc = "returned"
     /\ ~(ParagraphOpen /\ CannotInterrupt)
     /\ TheListLine.item.nested /\ bState.depth >= MaxNestedLevel - 1) =>
        bState.tokens[Len(bState.tokens)].children[1].children
            = <<Paragraph(SubSeq(TheListLine.text, 2, Len(TheListLine.text)))>>

(***************************************************************************)
(* NotifyBlockParser.extract_block_quote.                                  *)
(***************************************************************************)
MaxQuoteLines == 3

\* the grave accent that fences code
Backtick == "<U+0060>"

Min(a, b) == IF a <= b THEN a ELSE b

LeastOf(S) == CHOOSE k \in S : \A j \in S : k <= j

\* F(x), x being evaluated once
Bind(x, F(_)) == CHOOSE r \in {F(v) : v \in {x}} : TRUE

\* (?:>|\^)
QuoteMarkerClass == {">", "^"}

\* the offset of the "\n" that ends the line of src[p], or len(src)
LineEnd(src, p) == LeastOf({k \in p..(Len(src) - 1) : Ch(src, k) = "\n"} \cup {Len(src)})

\* the offset after the line of src[p]
AfterLine(src, p) == Bind(LineEnd(src, p), LAMBDA e : IF e < Len(src) THEN e + 1 ELSE e)

\* NOTIFY_BLOCK_QUOTE_PATTERN matched at src[p], the start of a line:
\* [ok, quote_1, end], end being m.end(), the offset of the end of the line
QuoteMatch(src, p) ==
    LET sp == RunLen(src, p + 1, {" "})
        e == LineEnd(src, p)
    IN  IF sp <= 3 /\ Ch(src, p + sp) \in QuoteMarkerClass
        THEN [ok |-> TRUE, quote_1 |-> Slice(src, p + sp + 1, e), end |-> e]
        ELSE NoMatch

\* one line of _STRICT_BLOCK_QUOTE, {0,3}(?:>|\^)[^\n]*(?:\n|$), matches at src[p]
StrictQuoteLineAt_M(src, p) ==
    p < Len(src) /\ RunLen(src, p + 1, {" "}) <= 3
        /\ Ch(src, p + RunLen(src, p + 1, {" "})) = ">"
StrictQuoteLineAt(src, p) ==
    p < Len(src) /\ RunLen(src, p + 1, {" "}) <= 3
        /\ Ch(src, p + RunLen(src, p + 1, {" "})) \in QuoteMarkerClass

\* _STRICT_BLOCK_QUOTE.match(src, p): m.end(), or p when it does not match
RECURSIVE StrictBlockQuoteEnd(_, _)
StrictBlockQuoteEnd(src, p) ==
    IF StrictQuoteLineAt(src, p)
    THEN Bind(AfterLine(src, p), LAMBDA q : StrictBlockQuoteEnd(src, q))
    ELSE p

\* _BLOCK_QUOTE_LEADING.sub('', quote), from the line that starts at quote[i] on
RECURSIVE SubBlockQuoteLeading(_, _)
SubBlockQuoteLeading(quote, i) ==
    IF i > Len(quote) THEN <<>>
    ELSE LET sp == RunLen(quote, i, {" "})
             drop == IF At(quote, i + sp) \in QuoteMarkerClass THEN sp + 1 ELSE 0
         IN  Bind(AfterLine(quote, i - 1),
                  LAMBDA e : SubSeq(quote, i + drop, e) \o SubBlockQuoteLeading(quote, e + 1))

\* _BLOCK_QUOTE_TRIM.sub('', text), from the line that starts at text[i] on
RECURSIVE SubBlockQuoteTrim(_, _)
SubBlockQuoteTrim(text, i) ==
    IF i > Len(text) THEN <<>>
    ELSE LET drop == IF At(text, i) = " " THEN 1 ELSE 0
         IN  Bind(AfterLine(text, i - 1),
                  LAMBDA e : SubSeq(text, i + drop, e) \o SubBlockQuoteTrim(text, e + 1))

\* the lines of a strict match as they are added to the text of the quote
QuoteText(quote) ==
    Bind(quote, LAMBDA q : Bind(SubBlockQuoteLeading(q, 1),
                                LAMBDA led : SubBlockQuoteTrim(led, 1)))

\* the blank_line pattern (^[ \t\v\f]*\n)+ matched at s[p]: m.end(), or p
RECURSIVE BlankLinesEnd(_, _)
BlankLinesEnd(s, p) ==
    LET ws == RunLen(s, p + 1, {" ", "\t"})
    IN  IF Ch(s, p + ws) = "\n"
        THEN Bind(p + ws + 1, LAMBDA q : BlankLinesEnd(s, q))
        ELSE p

\* the indent_code pattern matches at s[p]
IndentCodeAt(s, p) ==
    RunLen(s, p + 1, {" "}) >= 4 /\ ~(Ch(s, p + 4) \in {"\n", "<eof>"})

\* the fenced_code pattern matched at s[p]: [ok, c, n, info, end]
FencedCodeMatch(s, p) ==
    LET sp == RunLen(s, p + 1, {" "})
        c == Ch(s, p + sp)
        n == RunLen(s, p + sp + 1, {c})
        ws == RunLen(s, p + sp + n + 1, {" ", "\t"})
        e == LineEnd(s, p)
    IN  IF sp <= 3 /\ c \in {Backtick, "~"} /\ n >= 3
        THEN [ok |-> TRUE, c |-> c, n |-> n, info |-> Slice(s, p + sp + n + ws, e),
              end |-> e]
        ELSE NoMatch

\* the thematic_break pattern matched at s[p]: m.end(), or p
ThematicBreakEnd(s, p) ==
    LET sp == RunLen(s, p + 1, {" "})
        c == Ch(s, p + sp)
        e == LineEnd(s, p)
    IN  IF /\ sp <= 3 /\ c \in {"-", "_", "*"}
           /\ \A k \in (p + sp)..(e - 1) : Ch(s, k) \in {c, " ", "\t"}
           /\ Cardinality({k \in (p + sp)..(e - 1) : Ch(s, k) = c}) >= 3
        THEN e
        ELSE p

\* sc.match(text) for sc = compile_sc(["blank_line", "indent_code", "fenced_code"])
RequireMarker(text) ==
    BlankLinesEnd(text, 0) > 0 \/ IndentCodeAt(text, 0) \/ FencedCodeMatch(text, 0).ok

\* the closing fence searched from the line that starts at s[p]: m2.end(), or
\* cursor_max when there is none
RECURSIVE ClosingFenceEnd(_, _, _, _)
ClosingFenceEnd(s, p, c, n) ==
    IF p >= Len(s) THEN Len(s)
    ELSE LET sp == RunLen(s, p + 1, {" "})
             run == RunLen(s, p + sp + 1, {c})
             ws == RunLen(s, p + sp + run + 1, {" ", "\t"})
         IN  IF sp <= 3 /\ run >= n /\ Ch(s, p + sp + run + ws) \in {"\n", "<eof>"}
             THEN AfterLine(s, p)
             ELSE Bind(AfterLine(s, p), LAMBDA q : ClosingFenceEnd(s, q, c, n))

\* BlockParser.parse_fenced_code: None for a backtick fence whose info holds a
\* backtick, else the code up to the closing fence
parse_fenced_code(m, state) ==
    IF m.c = Backtick /\ Contains(m.info, <<Backtick>>)
    THEN [end_pos |-> NoPos, cursor |-> state.cursor, tokens |-> state.tokens]
    ELSE [end_pos |-> <<ClosingFenceEnd(state.src, Min(m.end + 1, Len(state.src)), m.c, m.n)>>,
          cursor |-> state.cursor,
          tokens |-> Append(state.tokens, [type |-> "block_code"])]

HtmlComment == <<"<", "!", "-", "-">>

\* the block_html pattern matches at s[p] with the opening of a comment
HtmlCommentAt(s, p) ==
    LET sp == RunLen(s, p + 1, {" "})
    IN  sp <= 3 /\ StartsWithAt(s, p + sp + 1, HtmlComment)

\* BlockParser.parse_block_html for the opening of a comment:
\* _parse_html_to_end(state, '-->', m.end())
parse_block_html(state) ==
    LET start == state.cursor + RunLen(state.src, state.cursor + 1, {" "}) + 4
        found == {q \in start..Len(state.src) :
                      StartsWithAt(state.src, q + 1, <<"-", "-", ">">>)}
    IN  IF found = {}
        THEN [end_pos |-> <<Len(state.src)>>, cursor |-> state.cursor,
              tokens |-> Append(state.tokens, [type |-> "block_html"])]
        ELSE LET marker_pos == CHOOSE q \in found : \A q2 \in found : q <= q2
             IN  [end_pos |-> <<AfterLine(state.src, marker_pos)>>,
                  cursor |-> marker_pos,
                  tokens |-> Append(state.tokens, [type |-> "block_html"])]

\* m4 = break_sc.match(state.src, state.cursor) and, when it matches,
\* self.parse_method(m4, state): [matched, end_pos, cursor, tokens]
ParseBreak(state) ==
    LET src == state.src
        p == state.cursor
        unmatched == [matched |-> FALSE, end_pos |-> NoPos, cursor |-> p,
                      tokens |-> state.tokens]
        returns(r) == [matched |-> TRUE, end_pos |-> r.end_pos, cursor |-> r.cursor,
                       tokens |-> r.tokens]
    IN  IF BlankLinesEnd(src, p) > p
        THEN [matched |-> TRUE, end_pos |-> <<BlankLinesEnd(src, p)>>, cursor |-> p,
              tokens |-> Append(state.tokens, [type |-> "blank_line"])]
        ELSE IF ThematicBreakEnd(src, p) > p
        THEN [matched |-> TRUE, end_pos |-> <<ThematicBreakEnd(src, p) + 1>>, cursor |-> p,
              tokens |-> Append(state.tokens, [type |-> "thematic_break"])]
        ELSE IF FencedCodeMatch(src, p).ok
        THEN Bind(FencedCodeMatch(src, p),
                  LAMBDA m : Bind(parse_fenced_code(m, state), returns))
        ELSE IF ListMatch(src, p).ok
        THEN Bind(ListMatch(src, p),
                  LAMBDA m : Bind(parse_list(m, state),
                                  LAMBDA r : [matched |-> TRUE, end_pos |-> <<r.end_pos>>,
                                              cursor |-> r.cursor, tokens |-> r.tokens]))
        ELSE IF HtmlCommentAt(src, p)
        THEN Bind(parse_block_html(state), returns)
        ELSE unmatched

\* _LINE_BLANK_END.search(quote)
LineBlankEnd(quote) ==
    \E j \in 1..(Len(quote) - 1) :
        /\ quote[j] = "\n"
        /\ quote[Len(quote)] = "\n"
        /\ \A k \in (j + 1)..(Len(quote) - 1) : quote[k] \in {" ", "\t"}

\* extract_block_quote up to the branch on require_marker: [state, call]
ExtractStart(m, state) ==
    Bind(SubBlockQuoteTrim(m.quote_1 \o <<"\n">>, 1),
         LAMBDA text : Bind(RequireMarker(text),
             LAMBDA require_marker :
                 [state |-> [state EXCEPT !.cursor = m.end + 1],
                  call |-> [fn |-> "extract_block_quote",
                            pc |-> IF require_marker THEN "strict" ELSE "loop",
                            text |-> text, end_pos |-> NoPos, prev_blank_line |-> FALSE,
                            require_marker |-> require_marker],
                  branch |-> "start"]))

\* the branch of require_marker: one strict match, and the return
ExtractStrict(state, call) ==
    Bind(StrictBlockQuoteEnd(state.src, state.cursor),
         LAMBDA e : [state |-> [state EXCEPT !.cursor = e],
                     call |-> [call EXCEPT !.pc = "returned",
                                   !.text = @ \o QuoteText(Slice(state.src, state.cursor, e))],
                     branch |-> "strict"])

\* if m3: the marked lines up to m3.end() are added to the text of the quote
QuoteIteration(state, call, m3) ==
    Bind(QuoteText(Slice(state.src, state.cursor, m3)),
         LAMBDA quote :
             [state |-> [state EXCEPT !.cursor = m3],
              call |-> [call EXCEPT !.text = @ \o quote,
                                    !.prev_blank_line = IsBlank(quote) \/ LineBlankEnd(quote)],
              branch |-> "quote"])

\* m4 and what follows it: the break on a construct, or the lazy continuation line
BreakIteration(state, call) ==
    Bind(ParseBreak(state),
         LAMBDA brk :
             IF brk.matched /\ TruthyPos(brk.end_pos)
             THEN [state |-> [state EXCEPT !.cursor = brk.cursor, !.tokens = brk.tokens],
                   call |-> [call EXCEPT !.pc = "returned", !.end_pos = brk.end_pos],
                   branch |-> "break"]
             ELSE Bind(find_line_end(state),
                       LAMBDA pos :
                           [state |-> [state EXCEPT !.cursor = pos, !.tokens = brk.tokens],
                            call |-> [call EXCEPT !.text =
                                          @ \o Slice(state.src, state.cursor, pos)],
                            branch |-> "lazy"]))

\* the test of the while loop and one iteration of it: [state, call, branch]
LoopIteration(state, call) ==
    IF ~(state.cursor < Len(state.src))
    THEN [state |-> state, call |-> [call EXCEPT !.pc = "returned"],
          branch |-> "exhausted"]
    ELSE Bind(StrictBlockQuoteEnd(state.src, state.cursor),
              LAMBDA m3 :
                  IF m3 > state.cursor
                  THEN QuoteIteration(state, call, m3)
                  ELSE IF call.prev_blank_line
                  THEN [state |-> state, call |-> [call EXCEPT !.pc = "returned"],
                        branch |-> "after_blank"]
                  ELSE BreakIteration(state, call))

RECURSIVE RunLoop(_, _)
RunLoop(state, call) ==
    IF call.pc = "returned" THEN [state |-> state, call |-> call]
    ELSE CHOOSE returned \in {RunLoop(r.state, r.call) : r \in {LoopIteration(state, call)}} :
             TRUE

\* NotifyBlockParser.extract_block_quote(m, state): [state, call], the text and
\* the end position it returns being call.text and call.end_pos
extract_block_quote(m, state) ==
    CHOOSE returned \in
        {IF r.call.pc = "strict"
         THEN [state |-> ExtractStrict(r.state, r.call).state,
               call |-> ExtractStrict(r.state, r.call).call]
         ELSE RunLoop(r.state, r.call) : r \in {ExtractStart(m, state)}} : TRUE

(* extract_block_quote on sources of up to MaxQuoteLines lines: the sources *)
(* hold no tab, so expand_leading_tab and expand_tab leave them as they are *)
QuoteMarkerChars == {">", "^"}

\* lines that carry a block quote marker, written with marker c
MarkedLines(c) ==
    {Line("quote", <<c>>, <<" ", "x">>),
     Line("blank_quote", <<c>>, <<>>),
     Line("code_quote", <<c>>, <<" ", " ", " ", " ", " ", "x">>),
     Line("fence_quote", <<c>>, <<" ", Backtick, Backtick, Backtick>>),
     Line("quote", <<" ", " ", c>>, <<"x">>),
     Line("quote", <<c>>, <<" ", ">", " ", "x">>)}

UnmarkedLines ==
    {Line("text", <<>>, <<"x">>),
     Line("blank", <<>>, <<>>),
     Line("thematic_break", <<>>, <<"-", "-", "-">>),
     Line("fence", <<>>, <<Backtick, Backtick, Backtick>>),
     Line("fence_info", <<>>, <<Backtick, Backtick, Backtick, " ", Backtick>>),
     Line("html", <<>>, <<"<", "!", "-", "-">>)}

\* list lines: the last line of a source when it has one
LastListLines ==
    {Line("list", <<"-">>, <<" ", "x">>),
     Line("list", <<"-">>, <<>>)}

AllMarkedLines == UNION {MarkedLines(c) : c \in QuoteMarkerChars}

\* the sources of at most max lines
QuoteSources(max) ==
    UNION {{<<first>> \o rest \o last :
               first \in AllMarkedLines,
               rest \in [1..n -> AllMarkedLines \cup UnmarkedLines],
               last \in IF n + 1 < max
                        THEN {<<>>} \cup {<<l>> : l \in LastListLines}
                        ELSE {<<>>}}
           : n \in 0..(max - 1)}

QuoteInit ==
    /\ \E open \in BOOLEAN, lines \in QuoteSources(MaxQuoteLines) :
        /\ Len(lines) <= MaxQuoteLines
        /\ bPieces = (IF open THEN <<ParagraphLine>> ELSE <<>>) \o lines
        /\ bState = BlockState(BlockSrc(bPieces),
                               IF open THEN Len(BlockLineText(ParagraphLine)) ELSE 0,
                               IF open THEN <<Paragraph(BlockLineText(ParagraphLine))>>
                               ELSE <<>>,
                               0)
    /\ bCall = NotInCall
    /\ FieldIdle /\ T2Idle /\ SmsIdle /\ CtorIdle /\ FmtIdle /\ ConcIdle /\ GlobIdle

\* extract_block_quote is called and runs up to the branch on require_marker
CallExtractBlockQuote ==
    /\ bCall.pc = "new"
    /\ \E m \in {QuoteMatch(bState.src, bState.cursor)} :
        /\ m.ok
        /\ \E r \in {ExtractStart(m, bState)} : bState' = r.state /\ bCall' = r.call
    /\ BlockFrame

\* if require_marker: the strict match, and the return
TakeStrictLines ==
    /\ bCall.pc = "strict"
    /\ \E r \in {ExtractStrict(bState, bCall)} : bState' = r.state /\ bCall' = r.call
    /\ BlockFrame

Iterate(branch) ==
    /\ bCall.pc = "loop"
    /\ \E r \in {LoopIteration(bState, bCall)} :
        /\ r.branch = branch
        /\ bState' = r.state
        /\ bCall' = r.call
    /\ BlockFrame

\* while state.cursor < state.cursor_max: is false
LeaveLoop == Iterate("exhausted")

\* if m3: the marked lines are added to the quote; continue
TakeQuoteLines == Iterate("quote")

\* if prev_blank_line: break
BreakAfterBlankLine == Iterate("after_blank")

\* if m4: end_pos = self.parse_method(m4, state); if end_pos: break
BreakOnConstruct == Iterate("break")

\* lazy continuation line
TakeLazyLine == Iterate("lazy")

QuoteNext ==
    \/ CallExtractBlockQuote
    \/ TakeStrictLines
    \/ LeaveLoop
    \/ TakeQuoteLines
    \/ BreakAfterBlankLine
    \/ BreakOnConstruct
    \/ TakeLazyLine

\* extract_block_quote, an iteration of its loop at a time
SpecQuote == QuoteInit /\ [][QuoteNext]_vars

\* extract_block_quote runs on a source, the thread of control not being held
\* up: an iteration of the loop that can be taken is taken
SpecQuoteFair == QuoteInit /\ [][QuoteNext]_vars /\ WF_vars(QuoteNext)

InExtract == bCall # <<>> /\ bCall.fn = "extract_block_quote"

ExtractReturned == InExtract /\ bCall.pc = "returned"

\* the lines of the source with the marker of every marked line replaced by c
WithMarker(lines, c) ==
    [k \in 1..Len(lines) |->
        IF lines[k].kind \in {"quote", "blank_quote", "code_quote", "fence_quote"}
        THEN [lines[k] EXCEPT !.marker =
                 [j \in 1..Len(@) |-> IF @[j] \in QuoteMarkerChars THEN c ELSE @[j]]]
        ELSE lines[k]]

\* the state the call started from
StateAtCall(lines) ==
    BlockState(BlockSrc(lines),
               IF ParagraphOpen THEN Len(BlockLineText(ParagraphLine)) ELSE 0,
               IF ParagraphOpen THEN <<Paragraph(BlockLineText(ParagraphLine))>> ELSE <<>>,
               0)

Extracted(lines) ==
    extract_block_quote(QuoteMatch(BlockSrc(lines), StateAtCall(lines).cursor),
                        StateAtCall(lines))

\* C24: extract_block_quote treats the markers ">" and "^" alike: the quote
\* text and the end position it returns for a source are those it returns for
\* the source with every block quote marker replaced by ">", and those it
\* returns for the source with every marker replaced by "^".
C24_MarkersTreatedAlike ==
    ExtractReturned =>
        \A c \in QuoteMarkerChars :
            \E other \in {Extracted(WithMarker(bPieces, c))} :
                /\ other.call.text = bCall.text
                /\ other.call.end_pos = bCall.end_pos
                /\ other.state.cursor = bState.cursor

\* a source that mixes the two markers, whose quote takes a lazy line
C24_Witness ==
    /\ ExtractReturned
    /\ \E j, k \in 1..Len(bPieces) :
        /\ bPieces[j].kind = "quote" /\ bPieces[k].kind = "quote"
        /\ bPieces[j].marker = <<">">> /\ bPieces[k].marker = <<"^">>
    /\ \E k \in 1..Len(bPieces) : bPieces[k].kind = "text" /\ k > 1
    /\ Len(bCall.text) > 4

\* the text the lines add to the quote, as the rules of the quote give it: a
\* marked line adds what follows its marker, less one space; an unmarked one
\* adds itself
LineQuoteText(line) ==
    IF line.marker # <<>> /\ line.kind # "list"
    THEN (IF line.text # <<>> /\ Head(line.text) = " " THEN Tail(line.text) ELSE line.text)
             \o <<"\n">>
    ELSE BlockLineText(line)

\* supplementary to C24: after a first line that is blank, indented code or
\* fenced code, the quote is the run of marked lines that follows it
QuoteLinesOf == IF ParagraphOpen THEN Tail(bPieces) ELSE bPieces

IsMarkedLine(line) == line.kind \in {"quote", "blank_quote", "code_quote", "fence_quote"}

RECURSIVE MarkedRun(_)
MarkedRun(lines) ==
    IF lines # <<>> /\ IsMarkedLine(Head(lines))
    THEN <<Head(lines)>> \o MarkedRun(Tail(lines))
    ELSE <<>>

RECURSIVE TextOfLines(_)
TextOfLines(lines) ==
    IF lines = <<>> THEN <<>> ELSE LineQuoteText(Head(lines)) \o TextOfLines(Tail(lines))

C24_StrictAfterCodeOrBlank ==
    (ExtractReturned
     /\ Head(QuoteLinesOf).kind \in {"blank_quote", "code_quote", "fence_quote"}) =>
        /\ bCall.text = TextOfLines(MarkedRun(QuoteLinesOf))
        /\ bCall.end_pos = NoPos

\* C30: extract_block_quote terminates on every input: the call returns.
C30_ExtractTerminates == <>(bCall.pc = "returned")

\* supplementary to C30: every iteration of the loop advances state.cursor or
\* leaves the loop, state.cursor never moves backwards, and the loop runs only
\* while state.cursor < state.cursor_max
C30_AdvancesOrLeaves ==
    [][(InExtract /\ bCall.pc = "loop") =>
          /\ bState'.cursor >= bState.cursor
          /\ bState'.cursor > bState.cursor \/ bCall'.pc = "returned"
          /\ bCall'.pc = "loop" => bState.cursor < Len(bState.src)]_vars

\* a call that took marked lines and a lazy line in its loop and has returned
C30_Witness ==
    /\ ExtractReturned
    /\ ~bCall.require_marker
    /\ \E k \in 2..Len(bPieces) : bPieces[k].kind = "text"
    /\ bState.cursor = Len(bState.src)
    /\ Len(bPieces) >= 3

(***************************************************************************)
(* formatters.py: insert_action_link on rendered HTML.  The HTML is a      *)
(* sequence of atoms: a whole tag is one atom, "<p style>" standing for    *)
(* p_start, "<a style href" for the opening of a link up to the end of its *)
(* href, " title" for a title attribute and " target>" for the end of the  *)
(* opening tag.                                                            *)
(***************************************************************************)
MaxBlocks == 2
MaxInlines == 3

PStart == "<p style>"
PEnd == "</p>"
AStart == "<a style href"
ATitle == " title"
ATarget == " target>"
AEnd == "</a>"
Gt == "&gt;"
Img == "<img>"

\* the atoms whose last character is ">"
TagAtoms == {PStart, PEnd, AEnd, ATarget, "<li>", "</li>", "<ul>", "</ul>"}

NoLinkMatch == [ok |-> FALSE]

\* action_link_regex matched from the atom html[i] on, which gives the first of
\* the two markers: a whole "&gt;", or the ">" that ends a tag.  The groups in
\* the order of re.findall: the marker matched last, the "&gt;" matched last,
\* the opening tag, the title inside it, the text and "</a>"
ActionLinkMatchAt(html, i) ==
    LET first == IF At(html, i) = Gt THEN <<Gt>>
                 ELSE IF At(html, i) \in TagAtoms THEN <<">">>
                 ELSE <<>>
        titled == At(html, i + 3) = ATitle
        target == IF titled THEN i + 4 ELSE i + 3
        closes == {e \in (target + 1)..Len(html) : html[e] = AEnd}
    IN  IF /\ first # <<>>
           /\ At(html, i + 1) = Gt
           /\ At(html, i + 2) = AStart
           /\ At(html, target) = ATarget
           /\ closes # {}
        THEN [ok |-> TRUE,
              item |-> << <<Gt>>, <<Gt>>, SubSeq(html, i + 2, target),
                          IF titled THEN <<ATitle>> ELSE <<>>,
                          SubSeq(html, target + 1, LeastOf(closes)) >>,
              end |-> LeastOf(closes)]
        ELSE NoLinkMatch

\* get_action_links: re.findall(action_link_regex, html), from html[i] on
RECURSIVE get_action_links(_, _)
get_action_links(html, i) ==
    IF i > Len(html) THEN <<>>
    ELSE Bind(ActionLinkMatchAt(html, i),
              LAMBDA m : IF m.ok THEN <<m.item>> \o get_action_links(html, m.end + 1)
                         ELSE get_action_links(html, i + 1))

\* html.split(sep, maxsplit=1): [before, after], or the one part when sep is
\* not in html
Split1(html, sep) ==
    LET found == {k \in 1..Len(html) : StartsWithAt(html, k, sep)}
    IN  IF found = {} THEN <<html>>
        ELSE << SubSeq(html, 1, LeastOf(found) - 1),
                SubSeq(html, LeastOf(found) + Len(sep), Len(html)) >>

\* the body of the loop of insert_action_link for one item: Ok(html), or the
\* ValueError of unpacking a split of one part
InsertOne(html, item) ==
    LET p_start == <<PStart>>
        p_end == <<PEnd>>
        action_link == item[3] \o <<Img, " ", "<b>">>
                           \o SubSeq(item[5], 1, Len(item[5]) - 1) \o <<"</b>", AEnd>>
        action_link_p_tags == p_start \o action_link \o p_end
        parts == Split1(html, Flatten(item))
        before_link == parts[1]
        after_link == parts[2]
        closing == IF \E k \in 1..Len(before_link) : before_link[k] = PStart
                   THEN <<PEnd>> ELSE <<>>
    IN  IF Len(parts) # 2 THEN Raise("ValueError")
        ELSE IF before_link = p_start /\ after_link = p_end
        THEN Ok(action_link_p_tags)
        ELSE IF At(before_link, Len(before_link)) = PStart /\ At(after_link, 1) = PEnd
        THEN Ok(before_link \o action_link \o after_link)
        ELSE IF At(before_link, Len(before_link)) = PStart
        THEN Ok(before_link \o action_link \o p_end \o p_start \o after_link)
        ELSE IF after_link = p_end
        THEN Ok(before_link \o closing \o action_link_p_tags)
        ELSE Ok(before_link \o closing \o action_link_p_tags \o p_start \o after_link)

\* for item in action_link_list
RECURSIVE InsertEach(_, _)
InsertEach(html, items) ==
    IF items = <<>> THEN Ok(html)
    ELSE Bind(InsertOne(html, Head(items)),
              LAMBDA r : IF r.exc # "none" THEN r ELSE InsertEach(r.out, Tail(items)))

insert_action_link(html) == InsertEach(html, get_action_links(html, 1))

\* rendered HTML: paragraphs and list items that hold text and links; a link is
\* an action link when two "&gt;" stand before it
TextInline == <<"a">>
ActionLink == <<Gt, Gt, AStart, ATarget, "t", AEnd>>
TitledActionLink == <<Gt, Gt, AStart, ATitle, ATarget, "t", AEnd>>
OneMarkerLink == <<Gt, AStart, ATarget, "t", AEnd>>

Inlines == {TextInline, ActionLink, TitledActionLink, OneMarkerLink}

Block(tag, inlines) == [tag |-> tag, inlines |-> inlines]

HtmlBlocks ==
    {Block(tag, inlines) :
        tag \in {"p", "li"},
        inlines \in UNION {[1..n -> Inlines] : n \in 1..MaxInlines}}

BlockHtml(block) ==
    IF block.tag = "p" THEN <<PStart>> \o Flatten(block.inlines) \o <<PEnd>>
    ELSE <<"<ul>", "<li>">> \o Flatten(block.inlines) \o <<"</li>", "</ul>">>

RECURSIVE BlocksHtml(_)
BlocksHtml(blocks) ==
    IF blocks = <<>> THEN <<>> ELSE BlockHtml(Head(blocks)) \o BlocksHtml(Tail(blocks))

ActionLinkInit ==
    /\ xPieces \in UNION {[1..n -> HtmlBlocks] : n \in 1..MaxBlocks}
    /\ xText = BlocksHtml(xPieces)
    /\ xHtml = TRUE
    /\ xCalls = <<>>
    /\ FieldIdle /\ T2Idle /\ SmsIdle /\ CtorIdle /\ ExtIdle

\* the call insert_action_link(html)
InsertActionLink ==
    /\ xCalls = <<>>
    /\ \E r \in {insert_action_link(xText)} :
        xCalls' = Append(xCalls, Called("insert_action_link", r))
    /\ UNCHANGED <<xPieces, xText, xHtml, fieldVars, t2Vars, smsVars, ctorVars, extVars>>

ActionLinkNext == InsertActionLink

SpecActionLink == ActionLinkInit /\ [][ActionLinkNext]_vars

InsertActionLinkCalled == xCalls # <<>> /\ xCalls[1].fn = "insert_action_link"

\* the paragraph tags of s are matched: each "</p>" closes the paragraph that
\* is open, no paragraph opens inside another and none is left open
RECURSIVE ParagraphsMatched(_, _, _)
ParagraphsMatched(s, i, open) ==
    IF i > Len(s) THEN ~open
    ELSE IF s[i] = PStart THEN ~open /\ ParagraphsMatched(s, i + 1, TRUE)
    ELSE IF s[i] = PEnd THEN open /\ ParagraphsMatched(s, i + 1, FALSE)
    ELSE ParagraphsMatched(s, i + 1, open)

\* an action link of the source: two "&gt;" and a link
IsActionLink(inline) == inline \in {ActionLink, TitledActionLink}

HoldsActionLink == \E k \in 1..Len(xPieces) : \E j \in 1..Len(xPieces[k].inlines) :
                       IsActionLink(xPieces[k].inlines[j])

\* every link that holds the image stands in a paragraph of its own, and no
\* "&gt;" is left before it
OwnParagraph(out) ==
    \A k \in 1..Len(out) :
        out[k] = Img =>
            \E a \in 1..(k - 1), e \in (k + 1)..Len(out) :
                /\ out[a] = AStart /\ out[e] = AEnd
                /\ \A j \in (a + 1)..(e - 1) : out[j] \notin {AStart, AEnd}
                /\ At(out, a - 1) = PStart
                /\ At(out, e + 1) = PEnd

\* as many links hold the image as the source has action links
CountAtoms(s, atom) == Cardinality({k \in 1..Len(s) : s[k] = atom})

ActionLinksOf(blocks) ==
    Cardinality({<<k, j>> \in (1..Len(blocks)) \X (1..MaxInlines) :
                    j <= Len(blocks[k].inlines) /\ IsActionLink(blocks[k].inlines[j])})

\* C26: insert_action_link returns, puts every action link of the HTML in a
\* paragraph of its own with no "&gt;" left before it, and the paragraph tags of
\* its output are matched, those of its input being matched.
C26_ParagraphsWellFormed ==
    InsertActionLinkCalled =>
        /\ xCalls[1].exc = "none"
        /\ ParagraphsMatched(xText, 1, FALSE) => ParagraphsMatched(xCalls[1].out, 1, FALSE)
        /\ OwnParagraph(xCalls[1].out)
        /\ CountAtoms(xCalls[1].out, Img) = ActionLinksOf(xPieces)

\* supplementary to C26: the claim holds for HTML that is paragraphs alone,
\* whose links carry no title and have no single "&gt;" before them: the five
\* cases of the code
OnlyPlainParagraphs ==
    \A k \in 1..Len(xPieces) :
        /\ xPieces[k].tag = "p"
        /\ \A j \in 1..Len(xPieces[k].inlines) :
               xPieces[k].inlines[j] \in {TextInline, ActionLink}

C26_FiveCases ==
    (InsertActionLinkCalled /\ OnlyPlainParagraphs) =>
        /\ xCalls[1].exc = "none"
        /\ ParagraphsMatched(xCalls[1].out, 1, FALSE)
        /\ OwnParagraph(xCalls[1].out)
        /\ CountAtoms(xCalls[1].out, Img) = ActionLinksOf(xPieces)

\* a titled action link makes the call raise
C26_TitledLinkRaises ==
    (InsertActionLinkCalled /\ xPieces = <<Block("p", <<TitledActionLink>>)>>) =>
        xCalls[1].exc = "ValueError"

(***************************************************************************)
(* Claims about the personalization dict render_notify_markdown is handed. *)
(***************************************************************************)
\* C27: render_notify_markdown and make_substitutions leave the dict of the
\* caller as it was: after the call, returned or raised, every key maps to the
\* value it had before.
C27_PersonalizationUnchanged == [][tPers' = tPers]_vars

\* supplementary to C27: with as_html the dict is left as it was
C27_UnchangedAsHtml == [][tAsHtml => tPers' = tPers]_vars

\* supplementary to C27: the call changes no key and no list, and a str only
\* by the percent-encoding of its whitespace
C27_OnlyWhitespaceEncoded ==
    [][/\ tPers'.type = tPers.type
       /\ Len(tPers'.items) = Len(tPers.items)
       /\ \A k \in 1..Len(tPers.items) :
              /\ tPers'.items[k][1] = tPers.items[k][1]
              /\ \/ tPers'.items[k][2] = tPers.items[k][2]
                 \/ /\ tPers.items[k][2].t = "str"
                    /\ tPers'.items[k][2] = StrV(encode_whitespace(tPers.items[k][2].s))]_vars

\* the plain text call has changed a value of the dict and raised
C27_ChangedAndRaised ==
    /\ tOp = "rendered" /\ ~tAsHtml /\ tOut.exc = "AttributeError"
    /\ \E k \in 1..Len(tPers.items) : tPers.items[k][2] = StrV(<<"v", "%20", "w">>)

(***************************************************************************)
(* template2.py: make_substitutions on rendered text, the values of the    *)
(* dict holding the masked form of a placeholder or not.                   *)
(***************************************************************************)
MaxRenderedPieces == 3

Masked(key) == <<PlaceholderOpen>> \o key \o <<PlaceholderClose>>

RenderedPieces == {PieceX, PieceSpace, Masked(<<"a">>), Masked(<<"b">>)}

SubstValues ==
    { StrV(<<"v">>), StrV(<<"w">>), StrV(Masked(<<"a">>)), StrV(Masked(<<"b">>)),
      ListV(<<StrV(Masked(<<"b">>))>>) }

SubstDicts(n) ==
    UNION {{d \in [1..k -> T2Keys \X SubstValues] :
                \A i, j \in 1..k : i # j => d[i][1] # d[j][1]} : k \in 1..n}

SubstInit ==
    /\ tPieces \in ContentsOf(RenderedPieces, MaxRenderedPieces)
    /\ tPers \in {DictP(d) : d \in SubstDicts(MaxKeys)}
    /\ tAsHtml \in BOOLEAN
    /\ tOp = "new"
    /\ tOut = [exc |-> "none", out |-> <<>>, steps |-> <<>>, missing |-> {}]
    /\ FieldIdle /\ SmsIdle /\ CtorIdle /\ FmtIdle /\ ExtIdle

\* the call make_substitutions(template, personalization, as_html)
MakeSubstitutions ==
    /\ tOp = "new"
    /\ \E r \in {make_substitutions(Flatten(tPieces), tPers.items, tAsHtml)} :
           /\ tOut' = [exc |-> r.exc, out |-> r.out, steps |-> <<"make_substitutions">>,
                       missing |-> r.missing]
           /\ tPers' = [tPers EXCEPT !.items = r.pers]
    /\ tOp' = "substituted"
    /\ UNCHANGED <<tPieces, tAsHtml, fieldVars, smsVars, ctorVars, fmtVars, extVars>>

SubstNext == MakeSubstitutions

SpecSubst == SubstInit /\ [][SubstNext]_vars

\* the orderings of the items of a dict
Orderings(items) ==
    {[k \in 1..Len(items) |-> items[p[k]]] :
        p \in {q \in [1..Len(items) -> 1..Len(items)] :
                  \A i, j \in 1..Len(items) : i # j => q[i] # q[j]}}

\* a str value of the dict that holds the masked form of another key of the
\* dict, its own key standing in the template
ValueHoldsMasked(template, items) ==
    \E i, j \in 1..Len(items) :
        /\ i # j
        /\ items[i][2] = StrV(Masked(items[j][1]))
        /\ Contains(template, Masked(items[i][1]))

\* C28: the result of make_substitutions is the same for every ordering of the
\* items of the dict, and a value that holds the masked form of another key is
\* in the output as it was given.
C28_OrderIndependent ==
    [][tOp' = "substituted" =>
          /\ \A items \in Orderings(tPers.items) :
                 \E other \in {make_substitutions(Flatten(tPieces), items, tAsHtml)} :
                     other.exc = tOut'.exc /\ other.out = tOut'.out
          /\ (tOut'.exc = "none" /\ ValueHoldsMasked(Flatten(tPieces), tPers.items)) =>
                 \E k \in 1..Len(tPers.items) :
                     Contains(tOut'.out, Masked(tPers.items[k][1]))]_vars

\* no value of the dict holds the masked form of a key of the dict
NoValueHoldsKey(items) ==
    \A i, j \in 1..Len(items) :
        /\ items[i][2].t = "str" => ~Contains(items[i][2].s, Masked(items[j][1]))
        /\ items[i][2].t = "list" =>
               \A n \in 1..Len(items[i][2].items) :
                   ~Contains(items[i][2].items[n].s, Masked(items[j][1]))

\* supplementary to C28: the result is the same for every ordering when no
\* value holds the masked form of a key of the dict
C28_OrderIndependentPlainValues ==
    [][(tOp' = "substituted" /\ NoValueHoldsKey(tPers.items)) =>
          \A items \in Orderings(tPers.items) :
              \E other \in {make_substitutions(Flatten(tPieces), items, tAsHtml)} :
                  other.exc = tOut'.exc /\ other.out = tOut'.out]_vars

(***************************************************************************)
(* formatters2.py: NotifyBlockParser.__init__ and the grammar table of     *)
(* mistune's BlockParser.  SPECIFICATION is a dict of the class BlockParser *)
(* (NotifyBlockParser defines none of its own); Parser.__init__ copies it  *)
(* to the specification of the instance.  A pattern is given by the        *)
(* markers it accepts.                                                     *)
(***************************************************************************)
MaxParsers == 3

\* BlockParser.SPECIFICATION as mistune defines it
StandardSpecification == [block_quote |-> {">"}, list |-> {"*", "+", "-"}]

ParserClasses == {"BlockParser", "NotifyBlockParser"}

GlobInit ==
    /\ GlobIdle
    /\ FieldIdle /\ T2Idle /\ SmsIdle /\ CtorIdle /\ FmtIdle /\ ConcIdle /\ BlockIdle

GlobFrame ==
    UNCHANGED <<fieldVars, t2Vars, smsVars, ctorVars, fmtVars, concVars, blockVars>>

\* Parser.__init__: self.specification = self.SPECIFICATION.copy()
Parser__init__(cls, SPECIFICATION) == [cls |-> cls, specification |-> SPECIFICATION]

\* BlockParser(), as mistune.create_markdown and mistune.Markdown construct it
ConstructBlockParser ==
    /\ Len(gParsers) < MaxParsers
    /\ gParsers' = Append(gParsers, Parser__init__("BlockParser", gSpecification))
    /\ UNCHANGED <<gSpecification, gParsed>>
    /\ GlobFrame

\* the two assignments of NotifyBlockParser.__init__ to self.SPECIFICATION[...]
NotifyPatterns(SPECIFICATION) ==
    [SPECIFICATION EXCEPT !.block_quote = QuoteMarkerClass, !.list = BulletClass]

\* NotifyBlockParser(): the assignments, then super().__init__()
ConstructNotifyBlockParser ==
    /\ Len(gParsers) < MaxParsers
    /\ gSpecification' = NotifyPatterns(gSpecification)
    /\ gParsers' = Append(gParsers, Parser__init__("NotifyBlockParser", gSpecification'))
    /\ UNCHANGED gParsed
    /\ GlobFrame

\* the rule of the specification that matches at the start of the line
RuleOf(specification, line) ==
    IF Head(line) \in specification.block_quote THEN "block_quote"
    ELSE IF Head(line) \in specification.list /\ At(line, 2) = " " THEN "list"
    ELSE "paragraph"

ParsedLines ==
    {<<">", " ", "x">>, <<"^", " ", "x">>, <<"-", " ", "x">>, <<Bullet, " ", "x">>, <<"x">>}

\* a Markdown object runs its block parser on a line
ParseLine ==
    /\ \E p \in 1..Len(gParsers), line \in ParsedLines :
           gParsed' = [parser |-> p, line |-> line,
                       rule |-> RuleOf(gParsers[p].specification, line)]
    /\ UNCHANGED <<gSpecification, gParsers>>
    /\ GlobFrame

GlobNext == ConstructBlockParser \/ ConstructNotifyBlockParser \/ ParseLine

SpecGlob == GlobInit /\ [][GlobNext]_vars

\* the line parsed last opens with a marker of Notify's own and was taken for
\* a block quote or a list
NotifyMarkerRecognised ==
    /\ gParsed # <<>>
    /\ Head(gParsed.line) \in {"^", Bullet}
    /\ gParsed.rule # "paragraph"

\* C29: the construction of a NotifyBlockParser changes no shared state: the
\* grammar table of the class BlockParser, and of every standard BlockParser,
\* is the one mistune defines, and "^" quotes and bullet characters are
\* recognised by no parser but a NotifyBlockParser.
C29_ConstructionChangesNoGlobal ==
    /\ gSpecification = StandardSpecification
    /\ \A p \in 1..Len(gParsers) :
           gParsers[p].cls = "BlockParser" =>
               gParsers[p].specification = StandardSpecification
    /\ NotifyMarkerRecognised => gParsers[gParsed.parser].cls = "NotifyBlockParser"

\* supplementary to C29: a parser keeps the grammar table it was constructed
\* with, whatever is constructed after it
C29_CopiedAtConstruction ==
    [][\A p \in 1..Len(gParsers) : gParsers'[p] = gParsers[p]]_vars

\* supplementary to C29: a standard parser constructed before every
\* NotifyBlockParser has the grammar table mistune defines, and every
\* NotifyBlockParser has Notify's
C29_EarlierParsersUnchanged ==
    \A p \in 1..Len(gParsers) :
        /\ (\A q \in 1..p : gParsers[q].cls = "BlockParser") =>
               gParsers[p].specification = StandardSpecification
        /\ gParsers[p].cls = "NotifyBlockParser" =>
               gParsers[p].specification = NotifyPatterns(StandardSpecification)

\* a standard BlockParser constructed after a NotifyBlockParser has taken a
\* "^" line for a block quote
C29_StandardParserTakesCaret ==
    /\ NotifyMarkerRecognised
    /\ gParsers[gParsed.parser].cls = "BlockParser"
    /\ gParsed.line = <<"^", " ", "x">>

====
